---------------------------- MODULE Spec2Model ----------------------------
(***************************************************************************)
(* A model of the UPE / GPS-factorization scripts.                         *)
(*                                                                         *)
(*   src/unnamed/part_000   prime near X, Goldbach pairs, sqrt-window      *)
(*                          factorization (runPrimeNearX, runGoldbach,     *)
(*                          runFactorization) and their helpers            *)
(*   src/script.js 1-299    FactoriX: cooperative factorize with           *)
(*                          Run / Stop / Reset                             *)
(*   src/script.js 301-439  FactoriXUPE: isPrime64, fermatFactor,          *)
(*                          rhoBrent, factor, factorizeBigInt              *)
(*                                                                         *)
(* JavaScript BigInt values are exact.  TLC integers are 32 bits wide, so  *)
(* the values handed to the Miller-Rabin code are kept as two limbs        *)
(* <<hi, lo>> of 25 bits ("Big"); everything else fits TLC integers for    *)
(* the inputs the specifications draw.                                     *)
(***************************************************************************)
EXTENDS Integers, Sequences, FiniteSets, TLC

(***************************************************************************)
(* Bounds of the model (not program constants).                            *)
(***************************************************************************)
\* loops of the arithmetic are evaluated in blocks of Chunk iterations, which
\* bounds the depth of evaluation; the value does not change any result
Chunk == 7
\* factorizeBigInt is run on every N in 1..MaxN (and on SpecialN)
MaxN == 64
\* how often one factor call may see rhoBrent return n itself
MaxRhoRetries == 2
\* the model's stand-in for the 2,000,000 steps factor grants fermatFactor
\* (src/script.js:402): large enough that close factor pairs are found,
\* small enough that rhoBrent is reached
FermatSteps == 3

(***************************************************************************)
(* Exact arithmetic on Big values: <<hi, lo>> stands for hi * 2^25 + lo.   *)
(***************************************************************************)
LimbBase == 2^25
Big(n) == <<n \div LimbBase, n % LimbBase>>
BigVal(a) == a[1] * LimbBase + a[2]
Big0 == <<0, 0>>
Big1 == <<0, 1>>
Big2 == <<0, 2>>
BAdd(a, b) ==
  LET lo == a[2] + b[2] IN <<a[1] + b[1] + lo \div LimbBase, lo % LimbBase>>
\* a - b for a >= b
BSub(a, b) ==
  LET lo == a[2] - b[2]
  IN IF lo < 0 THEN <<a[1] - b[1] - 1, lo + LimbBase>> ELSE <<a[1] - b[1], lo>>
BLt(a, b) == a[1] < b[1] \/ (a[1] = b[1] /\ a[2] < b[2])
\* a >> 1n
BHalf(a) == <<a[1] \div 2, (a[2] + (a[1] % 2) * LimbBase) \div 2>>
\* a & 1n
BOdd(a) == a[2] % 2 = 1
\* (x + y) % m for x, y < m
BAddMod(x, y, m) == LET s == BAdd(x, y) IN IF BLt(s, m) THEN s ELSE BSub(s, m)
\* (a * b) % m for a, b < m: the product is summed from the doublings of a,
\* one bit of b after the other, so that no intermediate value leaves the
\* two limbs
BMulModIter(st, m) ==
  [acc |-> IF BOdd(st.bb) THEN BAddMod(st.acc, st.x, m) ELSE st.acc,
   x |-> BAddMod(st.x, st.x, m),
   bb |-> BHalf(st.bb)]
BMulMod(a, b, m) ==
  LET RECURSIVE run(_, _)
      run(st, k) == IF k = 0 \/ st.bb = Big0 THEN st ELSE run(BMulModIter(st, m), k - 1)
      RECURSIVE loop(_)
      loop(st) == IF st.bb = Big0 THEN st.acc ELSE loop(run(st, Chunk))
  IN loop([acc |-> Big0, x |-> a, bb |-> b])
\* a % m
BMod(a, m) ==
  IF BLt(a, m) THEN a
  ELSE IF m[1] = 0
       THEN BAddMod(BMulMod(<<0, a[1] % m[2]>>, <<0, LimbBase % m[2]>>, m),
                    <<0, a[2] % m[2]>>, m)
       ELSE BAddMod(BMulMod(<<0, a[1]>>, IF m = <<1, 0>> THEN Big0 ELSE <<1, 0>>, m),
                    <<0, a[2]>>, m)
\* n / p for an integer divisor 0 < p < 64, as a Big value
BDivSmall(n, p) ==
  LET r == (n[1] % p) * LimbBase + n[2]
  IN BAdd(<<n[1] \div p, 0>>, Big(r \div p))
\* whether a Big value fits a TLC integer with room for the squares taken of
\* its square root
FitsInt(n) == n[1] < 32

(***************************************************************************)
(* FactoriXUPE (src/script.js 301-439).                                    *)
(***************************************************************************)
\* isqrt: Newton iteration seeded with n
isqrtNewton(n) ==
  IF n < 2 THEN n
  ELSE LET RECURSIVE loop(_, _)
           loop(x, y) == IF y < x THEN loop(y, (y + n \div y) \div 2) ELSE x
       IN loop(n, (n + 1) \div 2)

\* one pass of the while loop of modPow
modPowIter(st, m) ==
  [r |-> IF BOdd(st.ee) THEN BMulMod(st.r, st.x, m) ELSE st.r,
   x |-> BMulMod(st.x, st.x, m),
   ee |-> BHalf(st.ee)]
modPow(a, e, m) ==
  LET RECURSIVE run(_, _)
      run(st, k) == IF k = 0 \/ st.ee = Big0 THEN st ELSE run(modPowIter(st, m), k - 1)
      RECURSIVE loop(_)
      loop(st) == IF st.ee = Big0 THEN st.r ELSE loop(run(st, Chunk))
  IN loop([r |-> Big1, x |-> BMod(a, m), ee |-> e])

\* n - 1 = d * 2^s with d odd: <<d, s>>
RECURSIVE OddPart(_, _)
OddPart(d, s) == IF BOdd(d) THEN <<d, s>> ELSE OddPart(BHalf(d), s + 1)

\* for (r = 1; r < s; r++) { x = (x*x) % n; if (x === n-1) return true }
SquaringsReachMinusOne(x0, s, n) ==
  LET RECURSIVE go(_, _)
      go(x, r) == IF r >= s THEN FALSE
                  ELSE LET x1 == BMulMod(x, x, n)
                       IN IF x1 = BSub(n, Big1) THEN TRUE ELSE go(x1, r + 1)
  IN go(x0, 1)

\* the first prime of the list that divides n, 0 if none does
FirstDivisor(n, list) ==
  LET hits == {i \in 1..Len(list) : BMod(n, Big(list[i])) = Big0}
  IN IF hits = {} THEN 0 ELSE list[CHOOSE i \in hits : \A j \in hits : i <= j]

small64 == <<2, 3, 5, 7, 11, 13, 17, 19, 23, 29>>
\* a faulty variant of bases64, three bases only (sensitivity of C9)
bases64Three == <<2, 3, 5>>
bases64 == <<2, 3, 5, 7, 11, 13, 17>>
\* one pass of the loop over the bases: TRUE when base a does not reject n
passes64(a, d, s, n) ==
  \/ BMod(Big(a), n) = Big0
  \/ LET x == modPow(Big(a), d, n)
     IN x = Big1 \/ x = BSub(n, Big1) \/ SquaringsReachMinusOne(x, s, n)
isPrime64(n) ==
  IF BLt(n, Big2) THEN FALSE
  ELSE LET p == FirstDivisor(n, small64)
       IN IF p # 0 THEN n = Big(p)
          ELSE LET ds == OddPart(BSub(n, Big1), 0)
               IN \A i \in 1..Len(bases64) : passes64(bases64[i], ds[1], ds[2], n)

\* a faulty variant of fermatStart, the root not rounded up (sensitivity of C21)
fermatStartFloor(n) == isqrtNewton(n)
\* let a = isqrt(n); if (a*a < n) a += 1n
fermatStart(n) ==
  LET a0 == isqrtNewton(n) IN IF a0 * a0 < n THEN a0 + 1 ELSE a0
\* fermatFactor: <<p, q>>, or <<>> for null
fermatFactor(n, maxSteps) ==
  LET a1 == fermatStart(n)
      RECURSIVE loop(_, _)
      loop(a, i) ==
        IF i >= maxSteps THEN <<>>
        ELSE LET b2 == a * a - n
                 b == isqrtNewton(b2)
                 p == a - b
                 q == a + b
             IN IF b * b = b2 /\ p > 1 /\ q > 1 /\ p * q = n THEN <<p, q>>
                ELSE loop(a + 1, i + 1)
  IN loop(a1, 0)

\* rhoBrent: the values a call that returns can return.  An even n gives 2;
\* otherwise g is a gcd with n that is not 1, computed from random y and c:
\* any divisor of n above 1, n itself included
rhoBrent(n) == IF n % 2 = 0 THEN {2} ELSE {g \in 2..n : n % g = 0}

\* a faulty variant of trial47, three primes only (sensitivity of C17)
trial47Short == <<2, 3, 5>>
trial47 == <<2, 3, 5, 7, 11, 13, 17, 19, 23, 29, 31, 37, 41, 43, 47>>


(***************************************************************************)
(* Helpers of src/unnamed/part_000.                                        *)
(***************************************************************************)
Max(a, b) == IF a > b THEN a ELSE b

\* Math.log on the values the model draws, in fixed point: a real r is the
\* integer floor(r * LnScale)
LnScale == 2^20
\* a * b / LnScale on fixed-point values, rounded down
MulFix(a, b) == LET p == BMulMod(Big(a), Big(b), <<2^29, 0>>) IN p[1] * 32 + p[2] \div LnScale
\* Math.log(2), rounded down
Ln2Fix == 726817
\* one bit of the binary logarithm of y in [1, 2): square, and halve if the
\* square reached 2
Log2Step(st) ==
  LET sq == MulFix(st.y, st.y)
      hi == sq >= 2 * LnScale
  IN [y |-> IF hi THEN sq \div 2 ELSE sq, frac |-> 2 * st.frac + (IF hi THEN 1 ELSE 0)]
\* the binary logarithm of y0 in [1, 2), 20 bits of it
Log2Frac(y0) ==
  LET RECURSIVE bits(_, _)
      bits(st, k) == IF st.y = 0 \/ k = 0 THEN st.frac ELSE bits(Log2Step(st), k - 1)
  IN bits([y |-> y0, frac |-> 0], 20)
\* Math.log(n) for an integer 1 <= n < 2^31
LnInt(n) ==
  LET e == CHOOSE k \in 0..30 : 2^k <= n /\ n \div 2 < 2^k
      y == IF e <= 20 THEN n * 2^(20 - e) ELSE n \div 2^(e - 20)
  IN MulFix(e * LnScale + Log2Frac(y), Ln2Fix)
\* lnBigIntApprox: Math.log(mant) + L * ln10 with mant = head / 10^L, which
\* is ln(bi) for a bi of at most 18 digits (head is then all of its digits)
lnBigIntApprox(bi) == LnInt(bi)
\* Math.floor(c * r) for a coefficient given in tenths and a fixed-point r
FloorTimes(tenths, r) == MulFix(tenths, r) \div 10

\* primesUpTo(P): the sieve array after the marking loops, then the unmarked
\* indices in increasing order
primesUpTo(P) ==
  LET n == Max(2, P)
      sieve[j \in 2..n] ==
        \E i \in 2..j : i * i <= n /\ i * i <= j /\ j % i = 0 /\ ~sieve[i]
      out == {i \in 2..n : ~sieve[i]}
  IN [k \in 1..Cardinality(out) |-> CHOOSE q \in out : Cardinality({r \in out : r < q}) = k - 1]

\* a faulty variant of trial that does not accept x = n - 1 (sensitivity of C8)
trialNoMinusOne(a, d, s, n) ==
  \/ BMod(a, n) = Big0
  \/ modPow(a, d, n) = Big1
\* trial(a) inside isProbablePrime, for n - 1 = d * 2^s
trial(a, d, s, n) ==
  \/ BMod(a, n) = Big0
  \/ LET x == modPow(a, d, n)
     IN x = Big1 \/ x = BSub(n, Big1) \/ SquaringsReachMinusOne(x, s, n)
small37 == <<2, 3, 5, 7, 11, 13, 17, 19, 23, 29, 31, 37>>
fixed == <<2, 3, 5, 7, 11, 13, 17>>
\* the base made of one output r of rnd32()
RandomBase(n, r) ==
  LET span == BSub(n, Big(3))
      a == BAdd(Big2, BMod(Big(r), IF BLt(Big0, span) THEN span ELSE Big1))
  IN IF ~BLt(a, n) THEN BAdd(BMod(a, BSub(n, Big2)), Big2) ELSE a
\* the first outputs of rnd32(): seed = (1103515245 * seed + 12345) & 0x7fffffff
\* from seed 123456789, the product taken in double precision
rnd32 == <<231794736, 1305586880, 1634287104, 2125698560, 774573568>>
\* isProbablePrime(n, rounds) when rnd32() returns draws[1], draws[2], ...
\* (rounds <= 7 + Len(draws))
isProbablePrime(n, rounds, draws) ==
  IF BLt(n, Big2) THEN FALSE
  ELSE LET hits == {i \in 1..Len(small37) :
                      n = Big(small37[i]) \/ BMod(n, Big(small37[i])) = Big0}
       IN IF hits # {}
          THEN n = Big(small37[CHOOSE i \in hits : \A j \in hits : i <= j])
          ELSE LET ds == OddPart(BSub(n, Big1), 0)
                   \* the fixed bases reached before cnt >= rounds returns true
                   nFixed == IF rounds < 1 THEN 1 ELSE IF rounds < 7 THEN rounds ELSE 7
               IN /\ \A i \in 1..nFixed : trial(Big(fixed[i]), ds[1], ds[2], n)
                  /\ \A k \in 1..(rounds - 7) :
                        trial(RandomBase(n, draws[k]), ds[1], ds[2], n)

\* a faulty variant of admissibleSingle that does not accept a candidate
\* equal to a prime of S (sensitivity of C6)
admissibleSingleNoSelf(X, u, S) ==
  LET Xu == X + u
  IN IF Xu < 2 THEN FALSE
     ELSE IF Xu % 2 = 0 THEN Xu = 2
     ELSE \A i \in 1..Len(S) : Xu % S[i] # 0

admissibleSingle(X, u, S) ==
  LET Xu == X + u
  IN IF Xu < 2 THEN FALSE
     ELSE IF Xu % 2 = 0 THEN Xu = 2
     ELSE LET hits == {i \in 1..Len(S) : Xu = S[i] \/ Xu % S[i] = 0}
          IN IF hits = {} THEN TRUE
             ELSE Xu = S[CHOOSE i \in hits : \A j \in hits : i <= j]

admissibleGoldbach(x, t, S) ==
  LET a == x - t
      b == x + t
  IN IF a < 2 \/ b < 2 THEN FALSE
     ELSE IF (a % 2 = 0 /\ a # 2) \/ (b % 2 = 0 /\ b # 2) THEN FALSE
     ELSE \A i \in 1..Len(S) :
            (a = S[i] \/ b = S[i]) \/ ~(a % S[i] = 0 \/ b % S[i] = 0)

\* a faulty variant of symmetricOffsets, -d before +d (sensitivity of C2)
symmetricOffsetsNegFirst(T) ==
  [i \in 1..(2 * Max(T, 0) + 1) |->
     IF i = 1 THEN 0 ELSE IF i % 2 = 0 THEN -(i \div 2) ELSE i \div 2]
\* the values symmetricOffsets(T) yields, in order
symmetricOffsets(T) ==
  [i \in 1..(2 * Max(T, 0) + 1) |->
     IF i = 1 THEN 0 ELSE IF i % 2 = 0 THEN i \div 2 ELSE -(i \div 2)]

(***************************************************************************)
(* Helpers of FactoriX (src/script.js 1-299).                              *)
(***************************************************************************)
\* admissibleAroundSqrt, abort being state.abort at the call
admissibleAroundSqrt(x, t, S, abort) ==
  IF abort THEN FALSE
  ELSE LET a == x - t
           b == x + t
       IN IF a < 2 \/ b < 2 THEN FALSE
          ELSE IF (a % 2 = 0 /\ a # 2) \/ (b % 2 = 0 /\ b # 2) THEN FALSE
          ELSE \A i \in 1..Len(S) :
                 (a = S[i] \/ b = S[i]) \/ ~(a % S[i] = 0 \/ b % S[i] = 0)

\* isqrt of FactoriX: the bits of the root from the highest power of two
\* below n down, starting from x0 = 1
isqrt(n) ==
  IF n < 2 THEN n
  ELSE LET top == CHOOSE k \in 0..30 : 2^k <= n /\ n \div 2 < 2^k
           RECURSIVE loop(_, _)
           loop(x0, k) ==
             IF k < 0 THEN x0
             ELSE LET y == x0 + 2^k
                  IN loop(IF y * y <= n THEN y ELSE x0, k - 1)
       IN loop(1, top)

\* quickSmallFactor(N, bound): the first prime up to bound that divides N,
\* 0 for null; the loop is left at once when state.abort is set
quickSmallFactor(N, bound, aborted) ==
  LET smalls == primesUpTo(bound)
      hits == {i \in 1..Len(smalls) : N % smalls[i] = 0}
  IN IF aborted \/ hits = {} THEN 0
     ELSE smalls[CHOOSE i \in hits : \A j \in hits : i <= j]

(***************************************************************************)
(* State.                                                                  *)
(***************************************************************************)
VARIABLES
  \* factorizeBigInt (src/script.js 394-414), the recursion of factor kept
  \* as the list of calls still to make
  fN,       \* the argument N
  fStack,   \* pending calls factor(n, out), innermost first: [n, depth]
  fOut,     \* the array out (res)
  fPc,      \* "call" | "done" | "crash"
  fRetry,   \* rhoBrent calls of the current factor call that returned n
  fStage    \* what the last factor call did: [n, stage]

VARIABLES
  \* runPrimeNearX / runGoldbach (src/unnamed/part_000 197-338)
  sMode,    \* "prime" | "goldbach": which of the two runs
  sParsed,  \* what parseBigIntExpr(raw) returned
  sC1, sC2, \* c1 and c2, in tenths
  sPov,     \* Poverride
  sTov,     \* Toverride
  sRounds,  \* mrRounds
  sP, sT,   \* P and T once derived (0 before)
  sS,       \* the sieve S once built (<<>> before)
  sIdx,     \* how many offsets symmetricOffsets(T) has yielded
  sChecked, \* checked
  sTested,  \* tested
  sLog,     \* the offsets handed to isProbablePrime, with the outcome
  sOut,     \* the report written to outEl
  sPc       \* "start" | "scan" | "done" ("idle": not run)

VARIABLES
  \* one call of a function of the scripts on arguments of its own
  pFn,      \* the function called
  pX, pU,   \* the centre and the offset (admissible*)
  pP,       \* the cutoff P: S is primesUpTo(P)
  pAbort,   \* state.abort at the call (admissibleAroundSqrt)
  pN,       \* n (isProbablePrime, isPrime64)
  pRounds,  \* rounds
  pDraws,   \* what rnd32() returns, call after call
  pRet,     \* the value returned
  pDone     \* the call has returned

VARIABLES
  \* FactoriX (src/script.js 1-299) under the event loop of the page
  running,  \* state.running
  abort,    \* state.abort
  xCalls,   \* the calls of factorize made so far, each with its locals
  xTimers,  \* the pending setTimeout callbacks of pause(0): call numbers
  xActive,  \* the call whose code is executing (0: the event loop is idle)
  xMsg      \* the last line written by a click handler

VARIABLES
  \* one run of the generator symmetricOffsets(T), next() after next()
  genT,     \* T
  genD,     \* d
  genPc,    \* where the generator is suspended ("idle": not run)
  genOut    \* the values yielded so far, in order

VARIABLES
  \* runFactorization (src/unnamed/part_000 342-441), run after run
  rRun,     \* which run this is: the position of its arguments in RingRuns
  rCfg,     \* the arguments: N (parsed.big), c1, c2, K, usePrefilter
  rP, rT,   \* P and T once derived (0 before)
  rS,       \* S
  rX,       \* X = isqrt(N)
  rRing,    \* ring
  rIdx,     \* how many offsets symmetricOffsets(R) has yielded in this ring
  rChecked, \* checked
  rTested,  \* the candidates tested for divisibility so far: [ring, off]
  rOut,     \* the report written to outEl
  rPc,      \* "start" | "ring" | "offs" | "done" ("idle": not run)
  rSeen     \* the reports of the runs before this one

VARIABLES
  \* one call of parseBigIntExpr(raw)
  qDef,     \* which definition is called: the file it is in
  qRaw,     \* raw, a sequence of characters
  qRet,     \* the object returned
  qDone     \* the call has returned

factorVars == <<fN, fStack, fOut, fPc, fRetry, fStage>>
searchVars == <<sMode, sParsed, sC1, sC2, sPov, sTov, sRounds, sP, sT, sS,
                sIdx, sChecked, sTested, sLog, sOut, sPc>>
pureVars == <<pFn, pX, pU, pP, pAbort, pN, pRounds, pDraws, pRet, pDone>>
xVars == <<running, abort, xCalls, xTimers, xActive, xMsg>>
genVars == <<genT, genD, genPc, genOut>>
ringVars == <<rRun, rCfg, rP, rT, rS, rX, rRing, rIdx, rChecked, rTested,
              rOut, rPc, rSeen>>
parseVars == <<qDef, qRaw, qRet, qDone>>
moreVars == <<genVars, ringVars, parseVars>>
vars == <<factorVars, searchVars, pureVars, xVars, moreVars>>
\* what each machine leaves alone
notFactor == <<searchVars, pureVars, xVars, moreVars>>
notSearch == <<factorVars, pureVars, xVars, moreVars>>
notPure == <<factorVars, searchVars, xVars, moreVars>>
notX == <<factorVars, searchVars, pureVars, moreVars>>
notGen == <<factorVars, searchVars, pureVars, xVars, ringVars, parseVars>>
notRing == <<factorVars, searchVars, pureVars, xVars, genVars, parseVars>>
notParse == <<factorVars, searchVars, pureVars, xVars, genVars, ringVars>>

FactorIdle ==
  /\ fN = Big0 /\ fStack = <<>> /\ fOut = <<>> /\ fPc = "idle" /\ fRetry = 0
  /\ fStage = [n |-> Big0, stage |-> "none"]
NoReport == [kind |-> "none"]
SearchIdle ==
  /\ sMode = "none" /\ sParsed = [ok |-> FALSE] /\ sC1 = 0 /\ sC2 = 0
  /\ sPov = <<0, 0>> /\ sTov = <<0, 0>> /\ sRounds = 0 /\ sP = 0 /\ sT = 0 /\ sS = <<>>
  /\ sIdx = 0 /\ sChecked = 0 /\ sTested = 0 /\ sLog = <<>>
  /\ sOut = NoReport /\ sPc = "idle"
XIdle ==
  /\ running = FALSE /\ abort = FALSE /\ xCalls = <<>> /\ xTimers = <<>>
  /\ xActive = 0 /\ xMsg = "idle"
PureIdle ==
  /\ pFn = "none" /\ pX = 0 /\ pU = 0 /\ pP = 0 /\ pAbort = FALSE /\ pN = 0
  /\ pRounds = 0 /\ pDraws = <<>> /\ pRet = FALSE /\ pDone = FALSE
GenIdle == genT = 0 /\ genD = 0 /\ genPc = "idle" /\ genOut = <<>>
NoRun == [N |-> 0, c1 |-> 0, c2 |-> 0, K |-> 0, usePrefilter |-> FALSE]
RingIdle ==
  /\ rRun = 0 /\ rCfg = NoRun /\ rP = 0 /\ rT = 0 /\ rS = <<>> /\ rX = 0
  /\ rRing = 0 /\ rIdx = 0 /\ rChecked = 0 /\ rTested = {}
  /\ rOut = NoReport /\ rPc = "idle" /\ rSeen = {}
ParseIdle ==
  qDef = "none" /\ qRaw = <<>> /\ qRet = [ok |-> FALSE] /\ qDone = FALSE
MoreIdle == GenIdle /\ RingIdle /\ ParseIdle

(***************************************************************************)
(* factor and factorizeBigInt (src/script.js 394-414).                     *)
(***************************************************************************)
\* the depth of recursion the host grants before "too much recursion"
MaxCallDepth == 12
\* the 49-bit input 341550071728321 = 10670053 * 32010157
PSP49 == <<10178985, 11716801>>
\* inputs beyond 1..MaxN: 5141 = 53 * 97 and 148877 = 53^3 escape trial
\* division and the Fermat steps, 3127 = 53 * 59 is split by Fermat
SpecialN == {Big(91), Big(3127), Big(5141), Big(148877), PSP49}
InputN == {Big(n) : n \in 0..MaxN} \cup SpecialN

Top == fStack[1]
Pop == Tail(fStack)
\* the two recursive calls factor(p, out); factor(q, out) replace the call
Calls(p, q) == <<[n |-> p, depth |-> Top.depth + 1], [n |-> q, depth |-> Top.depth + 1]>> \o Pop
Running == fPc = "call" /\ fStack # <<>>
Composite(n) == n # Big1 /\ ~isPrime64(n)

FactorInit ==
  /\ fN \in InputN
  /\ fStack = <<[n |-> fN, depth |-> 1]>>
  /\ fOut = <<>>
  /\ fPc = "call"
  /\ fRetry = 0
  /\ fStage = [n |-> fN, stage |-> "none"]
  /\ SearchIdle /\ PureIdle /\ XIdle /\ MoreIdle

\* the host's recursion limit is exceeded
FactorOverflow ==
  /\ Running /\ Top.depth > MaxCallDepth
  /\ fPc' = "crash"
  /\ UNCHANGED <<fN, fStack, fOut, fRetry, fStage>>
  /\ UNCHANGED notFactor

\* if (n === 1n) return;
FactorOne ==
  /\ Running /\ Top.depth <= MaxCallDepth
  /\ Top.n = Big1
  /\ fStack' = Pop
  /\ fStage' = [n |-> Top.n, stage |-> "one"]
  /\ UNCHANGED <<fN, fOut, fPc, fRetry>>
  /\ UNCHANGED notFactor

\* if (isPrime64(n)) { out.push(n); return; }
FactorPrime ==
  /\ Running /\ Top.depth <= MaxCallDepth
  /\ Top.n # Big1 /\ isPrime64(Top.n)
  /\ fOut' = Append(fOut, Top.n)
  /\ fStack' = Pop
  /\ fStage' = [n |-> Top.n, stage |-> "prime"]
  /\ UNCHANGED <<fN, fPc, fRetry>>
  /\ UNCHANGED notFactor

\* for (const p of [2n, ..., 47n]) if (n % p === 0n) { factor(p); factor(n/p); return; }
FactorTrial ==
  /\ Running /\ Top.depth <= MaxCallDepth
  /\ Composite(Top.n)
  /\ LET p == FirstDivisor(Top.n, trial47)
     IN /\ p # 0
        /\ fStack' = Calls(Big(p), BDivSmall(Top.n, p))
  /\ fStage' = [n |-> Top.n, stage |-> "trial"]
  /\ UNCHANGED <<fN, fOut, fPc, fRetry>>
  /\ UNCHANGED notFactor

\* const ff = fermatFactor(n, 2_000_000); if (ff) { factor(ff[0]); factor(ff[1]); return; }
FactorFermat ==
  /\ Running /\ Top.depth <= MaxCallDepth
  /\ Composite(Top.n)
  /\ FirstDivisor(Top.n, trial47) = 0
  /\ LET ff == fermatFactor(BigVal(Top.n), FermatSteps)
     IN /\ ff # <<>>
        /\ fStack' = Calls(Big(ff[1]), Big(ff[2]))
  /\ fStage' = [n |-> Top.n, stage |-> "fermat"]
  /\ UNCHANGED <<fN, fOut, fPc, fRetry>>
  /\ UNCHANGED notFactor

\* let d = n; while (d === n) d = rhoBrent(n); factor(d); factor(n/d);
\* one pass of the while loop
FactorRho ==
  /\ Running /\ Top.depth <= MaxCallDepth
  /\ Composite(Top.n)
  /\ FirstDivisor(Top.n, trial47) = 0
  /\ fermatFactor(BigVal(Top.n), FermatSteps) = <<>>
  /\ \E d \in rhoBrent(BigVal(Top.n)) :
        IF d = BigVal(Top.n)
        THEN /\ fRetry < MaxRhoRetries
             /\ fRetry' = fRetry + 1
             /\ fStage' = [n |-> Top.n, stage |-> "rho-retry"]
             /\ UNCHANGED fStack
        ELSE /\ fRetry' = 0
             /\ fStage' = [n |-> Top.n, stage |-> "rho"]
             /\ fStack' = Calls(Big(d), Big(BigVal(Top.n) \div d))
  /\ UNCHANGED <<fN, fOut, fPc>>
  /\ UNCHANGED notFactor

\* factor(N, res) has returned: return res
FactorReturn ==
  /\ fPc = "call" /\ fStack = <<>>
  /\ fPc' = "done"
  /\ UNCHANGED <<fN, fStack, fOut, fRetry, fStage>>
  /\ UNCHANGED notFactor

FactorNext ==
  \/ FactorOverflow \/ FactorOne \/ FactorPrime \/ FactorTrial
  \/ FactorFermat \/ FactorRho \/ FactorReturn

SpecFactor == FactorInit /\ [][FactorNext]_vars

(***************************************************************************)
(* Properties of factorizeBigInt.                                          *)
(***************************************************************************)
\* a * b, exact for products below 2^54
BigTop == <<2^29, 0>>
BMul(a, b) == BMulMod(a, b, BigTop)
\* the product of the elements of a sequence of Big values
Product(seq) ==
  LET RECURSIVE prod(_)
      prod(i) == IF i > Len(seq) THEN Big1 ELSE BMul(seq[i], prod(i + 1))
  IN prod(1)
\* the divisors tried on e: every d with d * d <= e when e fits an integer,
\* otherwise the small ones and the smaller factor of PSP49
MaxSmallDivisor == 50
TrialDivisors(e) ==
  IF FitsInt(e) THEN 2..isqrtNewton(BigVal(e))
  ELSE (2..MaxSmallDivisor) \cup {10670053}
NoProperDivisor(e) ==
  BLt(Big1, e) /\ \A d \in TrialDivisors(e) : BMod(e, Big(d)) # Big0

\* C1: for every N >= 1, factorizeBigInt(N) returns a list whose product is N
\* and whose every element is prime (passes isPrime64 and has no divisor
\* strictly between 1 and itself); N = 1 gives the empty list
C1_ProductIsNAndFactorsArePrime ==
  (fPc = "done" /\ fN # Big0) =>
     /\ Product(fOut) = fN
     /\ \A i \in 1..Len(fOut) : isPrime64(fOut[i]) /\ NoProperDivisor(fOut[i])
     /\ (fN = Big1 => fOut = <<>>)

\* the call factor(fStage.n) has just made its two recursive calls, which
\* are the first two of the calls still to make
JustSplit == fStage.stage \in {"trial", "fermat", "rho"}
\* 0 < m < n
PositiveBelow(m, n) == BLt(Big0, m) /\ BLt(m, n)
CalleesDescend ==
  JustSplit =>
    /\ Len(fStack) >= 2
    /\ PositiveBelow(fStack[1].n, fStage.n)
    /\ PositiveBelow(fStack[2].n, fStage.n)
\* C29 as stated: for every N >= 0 that the input check accepts, N = 0
\* included, every recursive call of factor is made on a positive integer
\* strictly smaller than its caller's argument, and factorizeBigInt(N)
\* returns instead of crashing
C29_RecursionDescendsAndReturns ==
  /\ CalleesDescend
  /\ fPc # "crash"
\* what holds of the code: the same for every N >= 1
C29_DescendsAndReturnsFromOne ==
  fN # Big0 => (CalleesDescend /\ fPc # "crash")
\* factorizeBigInt(0): factor(0) calls factor(2) and factor(0), without end
C29_Witness ==
  /\ fN = Big0 /\ fPc = "crash"
  /\ Top.depth > MaxCallDepth /\ fStack[2].n = Big0
  /\ \A i \in 1..Len(fOut) : fOut[i] = Big2
\* a run from N >= 1 that went through every stage of a split and returned
C29_ReturnWitness ==
  /\ fN = Big(5141) /\ fPc = "done" /\ fOut = <<Big(53), Big(97)>>

\* e has a divisor strictly between 1 and itself
HasProperDivisor(e) ==
  BLt(Big1, e) /\ \E d \in TrialDivisors(e) : BMod(e, Big(d)) = Big0
\* no prime up to 47 divides e
NoPrimeUpTo47Divides(e) ==
  \A p \in {2, 3, 5, 7, 11, 13, 17, 19, 23, 29, 31, 37, 41, 43, 47} :
    BMod(e, Big(p)) # Big0
\* C17: factor(n) tries the primality test, then trial division by the
\* primes up to 47, then fermatFactor, then rhoBrent: trial division is
\* reached only by an n that fails the primality test, fermatFactor only by
\* a composite n that no prime up to 47 divides, rhoBrent only when
\* fermatFactor has returned null as well; 91 is decomposed into 7 and 13 by
\* trial division alone
C17_StagesInFixedOrder ==
  /\ fStage.stage = "trial" => fStage.n # Big1 /\ ~isPrime64(fStage.n)
  /\ fStage.stage \in {"fermat", "rho", "rho-retry"} =>
        /\ ~isPrime64(fStage.n) /\ HasProperDivisor(fStage.n)
        /\ NoPrimeUpTo47Divides(fStage.n)
  /\ fStage.stage = "fermat" =>
        fermatFactor(BigVal(fStage.n), FermatSteps) # <<>>
  /\ fStage.stage \in {"rho", "rho-retry"} =>
        fermatFactor(BigVal(fStage.n), FermatSteps) = <<>>
  /\ fN = Big(91) =>
        /\ fStage.stage \in {"none", "trial", "prime"}
        /\ fPc = "done" => fOut = <<Big(7), Big(13)>>
\* 91 has been decomposed
C17_Witness == fN = Big(91) /\ fPc = "done" /\ Len(fOut) = 2

\* the same statement away from the one input that breaks it
C1_HoldsBelowPSP49 ==
  (fPc = "done" /\ fN # Big0 /\ fN # PSP49) =>
     /\ Product(fOut) = fN
     /\ \A i \in 1..Len(fOut) : isPrime64(fOut[i]) /\ NoProperDivisor(fOut[i])
     /\ (fN = Big1 => fOut = <<>>)

(***************************************************************************)
(* runPrimeNearX and runGoldbach (src/unnamed/part_000 197-338).  The two  *)
(* functions differ in the parity check, the centre and the candidates.    *)
(***************************************************************************)
\* the centres drawn: 1..MaxSearchX and SpecialX
MaxSearchX == 30
\* 120 and 528: three admissibles in a row fail; 92, 98: the same for pairs;
\* 12227 is odd; 5184286 and 12228 are the documented examples
SpecialX == {92, 98, 120, 528, 1000, 12227, 12228, 5184286}
T_LIMIT == 100000
\* a window radius override beyond 32 bits: 4294967336 = 2^32 + 40
HugeOverride == <<128, 40>>

\* An override is an integer Number, held as <<hi, lo>> = hi * 2^25 + lo with
\* hi of either sign.  Truthy(v) is the test `v ? ... : ...`; ToInt32(v) is
\* `v|0`: the low 32 bits of v read as a signed integer.
Truthy(v) == v # Big0
ToInt32(v) ==
  LET h == v[1] % 128
  IN (IF h >= 64 THEN h - 128 ELSE h) * LimbBase + v[2]

\* a faulty variant of DeriveP, c1 not applied (sensitivity of C12)
DerivePUnscaled(lnN, c1, Poverride) ==
  IF Truthy(Poverride) THEN Max(3, ToInt32(Poverride))
  ELSE Max(5, lnN \div LnScale)
\* P and T as derived from ln N and the overrides
DeriveP(lnN, c1, Poverride) ==
  IF Truthy(Poverride) THEN Max(3, ToInt32(Poverride))
  ELSE Max(5, FloorTimes(c1, lnN))
Tauto(lnN, c2) == Max(8, FloorTimes(c2, MulFix(lnN, lnN)))
DeriveT(lnN, c2, Toverride) ==
  IF Truthy(Toverride) THEN Max(2, ToInt32(Toverride)) ELSE Tauto(lnN, c2)
\* if (!Toverride && T > T_LIMIT)
SafetyStop(Toverride, T) == ~Truthy(Toverride) /\ T > T_LIMIT
\* a faulty variant of BoundedCorrection, a cap of 4 (sensitivity of C3)
BoundedCorrectionFour(tested) == tested >= 4
\* if (tested >= 3) break
BoundedCorrection(tested) == tested >= 3

IsBig == sParsed.ok /\ sParsed.mode = "big"
\* a faulty variant of IsOdd, the parity never checked (sensitivity of C11)
IsOddNever(E) == FALSE
\* E % 2n !== 0n
IsOdd(E) == E % 2 # 0
\* the centre of the window: X, or x = E / 2n
Centre == IF sMode = "goldbach" THEN sParsed.big \div 2 ELSE sParsed.big
LnN == lnBigIntApprox(sParsed.big)
\* the scan is entered: parsed, even for Goldbach
Derives == IsBig /\ (sMode = "goldbach" => ~IsOdd(sParsed.big))
Offset == symmetricOffsets(sT)[sIdx + 1]
Admissible(u) ==
  IF sMode = "goldbach" THEN admissibleGoldbach(Centre, u, sS)
  ELSE admissibleSingle(Centre, u, sS)
\* the condition of the if around the Found report
PrimeTest(x, u, rounds) == isProbablePrime(Big(x + u), rounds, rnd32)
\* a faulty variant of GoldbachTest, only a is tested (sensitivity of C4)
GoldbachTestOnlyA(x, t, rounds) == isProbablePrime(Big(x - t), rounds, rnd32)
\* a faulty variant of GoldbachTest, only b is tested (sensitivity of C13)
GoldbachTestOnlyB(x, t, rounds) == isProbablePrime(Big(x + t), rounds, rnd32)
GoldbachTest(x, t, rounds) ==
  isProbablePrime(Big(x - t), rounds, rnd32) /\ isProbablePrime(Big(x + t), rounds, rnd32)
Passes(u) ==
  IF sMode = "goldbach" THEN GoldbachTest(Centre, u, sRounds)
  ELSE PrimeTest(Centre, u, sRounds)
Bounded(tested) == [kind |-> "bounded", tested |-> tested]

SearchInit ==
  /\ sMode \in {"prime", "goldbach"}
  /\ sParsed \in {[ok |-> FALSE], [ok |-> TRUE, mode |-> "logonly"]}
                   \cup {[ok |-> TRUE, mode |-> "big", big |-> X] :
                           X \in (1..MaxSearchX) \cup SpecialX}
  /\ sC1 = 16
  /\ sC2 \in {20, 5000}
  /\ sPov \in {Big(0), Big(3), Big(-1)}
  /\ sTov \in {Big(0), Big(2), Big(40), Big(-5), HugeOverride}
  /\ sRounds \in {12, 3, -1}
  /\ sP = 0 /\ sT = 0 /\ sS = <<>>
  /\ sIdx = 0 /\ sChecked = 0 /\ sTested = 0 /\ sLog = <<>>
  /\ sOut = NoReport
  /\ sPc = "start"
  /\ FactorIdle /\ PureIdle /\ XIdle /\ MoreIdle

SearchFrame == UNCHANGED <<sMode, sParsed, sC1, sC2, sPov, sTov, sRounds>>

\* if (!parsed.ok) { "Error: ..."; return; }
SearchParseError ==
  /\ sPc = "start" /\ ~sParsed.ok
  /\ sOut' = [kind |-> "error"]
  /\ sPc' = "done"
  /\ UNCHANGED <<sP, sT, sS, sIdx, sChecked, sTested, sLog>>
  /\ SearchFrame /\ UNCHANGED notSearch

\* if (parsed.mode === "logonly") { "Log Mode Preview"; return; }
SearchLogOnly ==
  /\ sPc = "start" /\ sParsed.ok /\ sParsed.mode = "logonly"
  /\ sOut' = [kind |-> "logonly"]
  /\ sPc' = "done"
  /\ UNCHANGED <<sP, sT, sS, sIdx, sChecked, sTested, sLog>>
  /\ SearchFrame /\ UNCHANGED notSearch

\* runGoldbach: if (E % 2n !== 0n) { "E must be even."; return; }
SearchOdd ==
  /\ sPc = "start" /\ IsBig
  /\ sMode = "goldbach" /\ IsOdd(sParsed.big)
  /\ sOut' = [kind |-> "odd"]
  /\ sPc' = "done"
  /\ UNCHANGED <<sP, sT, sS, sIdx, sChecked, sTested, sLog>>
  /\ SearchFrame /\ UNCHANGED notSearch

\* P and T are derived; the safety preview
SearchSafety ==
  /\ sPc = "start" /\ Derives
  /\ sP' = DeriveP(LnN, sC1, sPov)
  /\ sT' = DeriveT(LnN, sC2, sTov)
  /\ SafetyStop(sTov, sT')
  /\ sOut' = [kind |-> "safety", P |-> sP', T |-> sT']
  /\ sPc' = "done"
  /\ UNCHANGED <<sS, sIdx, sChecked, sTested, sLog>>
  /\ SearchFrame /\ UNCHANGED notSearch

\* P and T are derived; const S = primesUpTo(P); the loop is entered
SearchBegin ==
  /\ sPc = "start" /\ Derives
  /\ sP' = DeriveP(LnN, sC1, sPov)
  /\ sT' = DeriveT(LnN, sC2, sTov)
  /\ ~SafetyStop(sTov, sT')
  /\ sS' = primesUpTo(sP')
  /\ sPc' = "scan"
  /\ UNCHANGED <<sIdx, sChecked, sTested, sLog, sOut>>
  /\ SearchFrame /\ UNCHANGED notSearch

\* the generator yields an offset that is not admissible: continue
ScanSkip ==
  /\ sPc = "scan" /\ sIdx < Len(symmetricOffsets(sT))
  /\ ~Admissible(Offset)
  /\ sIdx' = sIdx + 1
  /\ UNCHANGED <<sP, sT, sS, sChecked, sTested, sLog, sOut, sPc>>
  /\ SearchFrame /\ UNCHANGED notSearch

\* the generator yields an admissible offset: it is tested; Found, or the
\* break after the third, or the next pass of the loop
ScanTest ==
  /\ sPc = "scan" /\ sIdx < Len(symmetricOffsets(sT))
  /\ Admissible(Offset)
  /\ sIdx' = sIdx + 1
  /\ sChecked' = sChecked + 1
  /\ sTested' = sTested + 1
  /\ sLog' = Append(sLog, [u |-> Offset, pass |-> Passes(Offset)])
  /\ IF Passes(Offset)
     THEN /\ sOut' = [kind |-> "found", P |-> sP, T |-> sT, u |-> Offset,
                      a |-> Centre - Offset, b |-> Centre + Offset,
                      tested |-> sTested', dstep |-> sTested' - 1]
          /\ sPc' = "done"
     ELSE IF BoundedCorrection(sTested')
     THEN /\ sOut' = Bounded(sTested')
          /\ sPc' = "done"
     ELSE UNCHANGED <<sOut, sPc>>
  /\ UNCHANGED <<sP, sT, sS>>
  /\ SearchFrame /\ UNCHANGED notSearch

\* the generator is exhausted: the report after the loop
ScanEnd ==
  /\ sPc = "scan" /\ sIdx >= Len(symmetricOffsets(sT))
  /\ sOut' = Bounded(sTested)
  /\ sPc' = "done"
  /\ UNCHANGED <<sP, sT, sS, sIdx, sChecked, sTested, sLog>>
  /\ SearchFrame /\ UNCHANGED notSearch

SearchNext ==
  \/ SearchParseError \/ SearchLogOnly \/ SearchOdd \/ SearchSafety
  \/ SearchBegin \/ ScanSkip \/ ScanTest \/ ScanEnd

SpecSearch == SearchInit /\ [][SearchNext]_vars

(***************************************************************************)
(* Properties of runPrimeNearX and runGoldbach.                            *)
(***************************************************************************)
Abs(n) == IF n < 0 THEN -n ELSE n
\* v comes before u in the order 0, +1, -1, +2, -2, ...
Before(v, u) == Abs(v) < Abs(u) \/ (Abs(v) = Abs(u) /\ v > u)
\* primality by trial division, the reference of the properties
NoDivisorUpToSqrt(n) == \A d \in 2..isqrtNewton(n) : n % d # 0
IsPrime(n) == n >= 2 /\ NoDivisorUpToSqrt(n)

\* C2: the offsets handed to the primality test come in non-decreasing
\* |offset| order, +d before -d; when the search reports Found at u, no
\* admissible offset that comes before u in that order passes the test
C2_TestedInOrderFirstPassingWins ==
  /\ \A i, j \in 1..Len(sLog) : i < j => Before(sLog[i].u, sLog[j].u)
  /\ sOut.kind = "found" =>
       /\ Admissible(sOut.u) /\ Passes(sOut.u)
       /\ \A v \in (-Abs(sOut.u))..Abs(sOut.u) :
            (Before(v, sOut.u) /\ Admissible(v)) => ~Passes(v)
\* Found at a negative offset after two admissibles failed
C2_Witness == sOut.kind = "found" /\ sOut.tested = 3 /\ sOut.u < 0

\* C3: never more than 3 admissibles are tested; once the third has failed
\* the run has ended with the failure report; on success Delta_step is
\* tested - 1, one of 0, 1, 2
C3_AtMostThreeTested ==
  /\ sTested <= 3 /\ Len(sLog) = sTested
  /\ (sTested = 3 /\ ~sLog[3].pass) => (sPc = "done" /\ sOut = Bounded(3))
  /\ sOut.kind = "found" =>
       (sOut.tested = sTested /\ sOut.dstep = sTested - 1 /\ sOut.dstep \in {0, 1, 2})
\* the failure report after three tests while admissible offsets remain
C3_Witness ==
  /\ sOut = Bounded(3) /\ sTested = 3
  /\ \E i \in (sIdx + 1)..Len(symmetricOffsets(sT)) :
        i <= sIdx + 40 /\ Admissible(symmetricOffsets(sT)[i])

\* every offset of symmetricOffsets(T) has been enumerated
Exhausted == sIdx >= Len(symmetricOffsets(sT))
\* C26 as stated: runPrimeNearX and runGoldbach report the bounded-correction
\* failure only when exactly 3 admissibles were tested without success; a
\* run that enumerated every offset with fewer than 3 tested ends in another
\* outcome
C26_BoundedReportOnlyAfterThreeTests ==
  sOut.kind = "bounded" => sOut.tested = 3
\* what holds of the code: the report after the loop is the same whether the
\* loop was left by the break or by the end of the offsets, and carries the
\* number of admissibles tested
C26_OneReportAfterTheLoop ==
  /\ sOut.kind = "bounded" =>
       /\ sPc = "done" /\ sOut.tested = sTested /\ sTested <= 3
       /\ sTested < 3 => Exhausted
       /\ \A i \in 1..Len(sLog) : ~sLog[i].pass
  /\ (sPc = "done" /\ Derives /\ sOut.kind # "safety" /\ sOut.kind # "found") =>
       sOut.kind = "bounded"
\* runPrimeNearX ends its window with fewer than 3 admissibles tested and
\* reports the bounded-correction failure
C26_Witness ==
  /\ sMode = "prime" /\ sPc = "done" /\ Exhausted
  /\ sOut.kind = "bounded" /\ sOut.tested < 3
\* the same for runGoldbach
C26_GoldbachWitness ==
  /\ sMode = "goldbach" /\ sPc = "done" /\ Exhausted
  /\ sOut.kind = "bounded" /\ sOut.tested < 3

\* C4: a reported Goldbach pair (a, b) is x - t, x + t for an offset t of
\* the window, sums to E, passed admissibleGoldbach, and both members pass
\* isProbablePrime with the requested rounds
C4_GoldbachPairSound ==
  (sMode = "goldbach" /\ sOut.kind = "found") =>
     LET E == sParsed.big
         x == E \div 2
         t == sOut.u
     IN /\ Abs(t) <= sT
        /\ sOut.a = x - t /\ sOut.b = x + t
        /\ sOut.a + sOut.b = E
        /\ admissibleGoldbach(x, t, sS)
        /\ isProbablePrime(Big(sOut.a), sRounds, rnd32)
        /\ isProbablePrime(Big(sOut.b), sRounds, rnd32)
\* a pair found away from the centre after an admissible pair failed
C4_Witness ==
  sMode = "goldbach" /\ sOut.kind = "found" /\ sOut.u # 0 /\ sOut.tested >= 2

\* C10: with no T override and an automatic T above 100000 the run ends in
\* the safety preview, with no sieve built, no offset drawn and no test
\* run; with a non-zero override the scan is entered with
\* T = max(2, override)
C10_SafetyCeilingUnlessOverride ==
  Derives =>
    /\ (sTov = Big0 /\ Tauto(LnN, sC2) > T_LIMIT) =>
         /\ sS = <<>> /\ sIdx = 0 /\ sChecked = 0 /\ sTested = 0 /\ sLog = <<>>
         /\ sPc = "done" => sOut.kind = "safety"
    /\ (sTov # Big0 /\ sPc # "start") =>
         /\ Big(sT) = (IF BLt(sTov, Big2) THEN Big2 ELSE sTov)
         /\ sS # <<>>
         /\ sOut.kind \in {"none", "found", "bounded"}
\* the safety preview has been reported
C10_Witness == sPc = "done" /\ sOut.kind = "safety" /\ sOut.T > T_LIMIT
\* what holds of the code: the ceiling as stated, and with a non-zero
\* override a scan with T = max(2, override|0)
C10_CeilingAndInt32Override ==
  Derives =>
    /\ (sTov = Big0 /\ Tauto(LnN, sC2) > T_LIMIT) =>
         /\ sS = <<>> /\ sIdx = 0 /\ sChecked = 0 /\ sTested = 0 /\ sLog = <<>>
         /\ sPc = "done" => sOut.kind = "safety"
    /\ (sTov # Big0 /\ sPc # "start") =>
         /\ sT = Max(2, ToInt32(sTov))
         /\ sS # <<>>
         /\ sOut.kind \in {"none", "found", "bounded"}
\* an override is honoured although the automatic T is above the ceiling
C10_OverrideWitness ==
  Derives /\ sTov # Big0 /\ Tauto(LnN, sC2) > T_LIMIT /\ sPc = "done" /\ sIdx > 0
\* the override 4294967336 has been given and the window scanned is 40
C10_WrappedOverride ==
  Derives /\ sTov = HugeOverride /\ sPc = "done" /\ sT = 40

\* C11: runGoldbach on a materialized odd E ends with "E must be even."
\* and nothing of the search has happened: P and T are not derived, no sieve
\* is built, no offset is drawn, no primality test is run
C11_OddGoldbachStopsBeforeSearch ==
  (sMode = "goldbach" /\ IsBig /\ sParsed.big % 2 = 1) =>
    /\ sP = 0 /\ sT = 0 /\ sS = <<>>
    /\ sIdx = 0 /\ sChecked = 0 /\ sTested = 0 /\ sLog = <<>>
    /\ sPc = "done" => sOut.kind = "odd"
\* E = 12227 has been refused
C11_Witness ==
  sMode = "goldbach" /\ IsBig /\ sParsed.big = 12227 /\ sPc = "done"
    /\ sOut.kind = "odd"

\* the default parameters: c1 = 1.6, c2 = 2.0, no overrides, 12 rounds
Defaults ==
  sC1 = 16 /\ sC2 = 20 /\ sPov = Big0 /\ sTov = Big0 /\ sRounds = 12
\* runPrimeNearX("5184286") with the defaults has returned
PrimeExampleDone ==
  sMode = "prime" /\ IsBig /\ sParsed.big = 5184286 /\ Defaults /\ sPc = "done"
GoldbachExampleDone ==
  sMode = "goldbach" /\ IsBig /\ sParsed.big = 12228 /\ Defaults
    /\ sPc = "done"
MaxGenT == 12
\* a faulty variant of YieldFirst, -d twice (sensitivity of C14)
YieldFirstNeg(d) == -d
\* yield +d; yield -d
YieldFirst(d) == d
YieldSecond(d) == -d

GenInit ==
  /\ genT \in 0..MaxGenT
  /\ genD = 0 /\ genPc = "start" /\ genOut = <<>>
  /\ FactorIdle /\ SearchIdle /\ PureIdle /\ XIdle /\ RingIdle /\ ParseIdle

\* yield 0
GenZero ==
  /\ genPc = "start"
  /\ genOut' = Append(genOut, 0)
  /\ genD' = 1
  /\ genPc' = "top"
  /\ UNCHANGED genT /\ UNCHANGED notGen

\* d <= T holds: yield +d
GenPos ==
  /\ genPc = "top" /\ genD <= genT
  /\ genOut' = Append(genOut, YieldFirst(genD))
  /\ genPc' = "mid"
  /\ UNCHANGED <<genT, genD>> /\ UNCHANGED notGen

\* yield -d; d++
GenNeg ==
  /\ genPc = "mid"
  /\ genOut' = Append(genOut, YieldSecond(genD))
  /\ genD' = genD + 1
  /\ genPc' = "top"
  /\ UNCHANGED genT /\ UNCHANGED notGen

\* d <= T fails: the generator returns
GenReturn ==
  /\ genPc = "top" /\ ~(genD <= genT)
  /\ genPc' = "done"
  /\ UNCHANGED <<genT, genD, genOut>> /\ UNCHANGED notGen

GenNext == GenZero \/ GenPos \/ GenNeg \/ GenReturn

SpecGen == GenInit /\ [][GenNext]_vars

\* how often v occurs in the sequence q
Count(q, v) == Cardinality({i \in 1..Len(q) : q[i] = v})
\* C14: symmetricOffsets(T), T >= 0, yields exactly the 2T+1 offsets
\* 0, +1, -1, ..., +T, -T in that order: each integer of -T..T once, the
\* magnitude never decreasing, +d immediately before -d
C14_OffsetsInSymmetricOrder ==
  /\ genPc \notin {"idle", "start"} =>
        genOut = SubSeq(symmetricOffsets(genT), 1, Len(genOut))
  /\ genPc = "done" =>
        /\ Len(genOut) = 2 * genT + 1
        /\ \A v \in (-genT)..genT : Count(genOut, v) = 1
        /\ genOut[1] = 0
        /\ \A i \in 1..(Len(genOut) - 1) : Abs(genOut[i]) <= Abs(genOut[i + 1])
        /\ \A d \in 1..genT :
              \E i \in 1..(Len(genOut) - 1) : genOut[i] = d /\ genOut[i + 1] = -d
\* a run with several magnitudes has ended
C14_Witness == genPc = "done" /\ genT >= 3 /\ Len(genOut) = 2 * genT + 1

(***************************************************************************)
(* runFactorization (src/unnamed/part_000 342-441).  The function is run   *)
(* on each of the arguments of RingRuns in turn, as by one click on the    *)
(* button after the other.                                                 *)
(***************************************************************************)
\* N is drawn from 2..MaxRingN and SpecialRingN
MaxRingN == 40
\* 91 = 7 * 13; 97 and 10007 are prime; 8633 = 89 * 97; 10403 = 101 * 103
SpecialRingN == <<91, 97, 8633, 10007, 10403>>
RingN == [i \in 1..(MaxRingN - 1) |-> i + 1] \o SpecialRingN
\* c2 in tenths: 0.1 (T = 8) and the default 2.0
RingC2 == <<1, 20>>
RingK == <<0, 1, 2>>
NumRingRuns == Len(RingN) * Len(RingC2) * Len(RingK) * 2
\* the arguments of the i-th run
RingRuns(i) ==
  LET j == i - 1
  IN [N |-> RingN[(j \div 12) + 1], c1 |-> 16,
      c2 |-> RingC2[((j \div 6) % 2) + 1],
      K |-> RingK[((j \div 2) % 3) + 1],
      usePrefilter |-> (j % 2 = 0)]

\* passesPrefilter(y) under usePrefilter and S
passesPrefilter(usePrefilter, y, S) ==
  IF ~usePrefilter THEN TRUE
  ELSE IF y < 2 THEN FALSE
  ELSE LET at == {i \in 1..Len(S) : y = S[i] \/ y % S[i] = 0}
       IN at = {} \/ y = S[CHOOSE i \in at : \A k \in at : i <= k]

\* a faulty variant of OnlyNewRing, nothing skipped (sensitivity of C15)
OnlyNewRingOff(ring, u, T) == FALSE
\* if (ring > 0 && Math.abs(u) < (ring - 1) * T) continue
OnlyNewRing(ring, u, T) == ring > 0 /\ Abs(u) < (ring - 1) * T

\* if (ring === 0 && checked >= 3)
RingZeroCap(ring, checked) == ring = 0 /\ checked >= 3

\* One pass of the body of the inner loop for the offset u: what it reports
\* (kind "none": the loop goes on), checked after it, the candidates it has
\* tested.  N % y throws a RangeError for y = 0, which the catch reports.
RingBody(cfg, X, S, ring, u, checked) ==
  LET N == cfg.N
      a == X + u
      hasB == u # 0
      b == X - u
      passA == passesPrefilter(cfg.usePrefilter, a, S)
      c1 == IF passA THEN checked + 1 ELSE checked
      ta == IF passA THEN {[ring |-> ring, off |-> u]} ELSE {}
  IN IF passA /\ a = 0
     THEN [kind |-> "error", checked |-> c1, tests |-> ta]
     ELSE IF passA /\ N % Abs(a) = 0
     THEN [kind |-> "hit", u |-> u, p |-> a, q |-> N \div a, checked |-> c1,
           tests |-> ta]
     ELSE LET passB == hasB /\ passesPrefilter(cfg.usePrefilter, b, S)
              c2 == IF passB THEN c1 + 1 ELSE c1
              tb == IF passB THEN ta \cup {[ring |-> ring, off |-> -u]} ELSE ta
          IN IF passB /\ b = 0
             THEN [kind |-> "error", checked |-> c2, tests |-> tb]
             ELSE IF passB /\ N % Abs(b) = 0
             THEN [kind |-> "hit", u |-> -u, p |-> b, q |-> N \div b,
                   checked |-> c2, tests |-> tb]
             ELSE IF RingZeroCap(ring, c2)
             THEN [kind |-> "bounded0", checked |-> c2, tests |-> tb]
             ELSE [kind |-> "none", checked |-> c2, tests |-> tb]

RingInit ==
  /\ rRun = 1 /\ rCfg = RingRuns(1)
  /\ rP = 0 /\ rT = 0 /\ rS = <<>> /\ rX = 0
  /\ rRing = 0 /\ rIdx = 0 /\ rChecked = 0 /\ rTested = {}
  /\ rOut = NoReport /\ rPc = "start" /\ rSeen = {}
  /\ FactorIdle /\ SearchIdle /\ PureIdle /\ XIdle /\ GenIdle /\ ParseIdle

RingFrame == UNCHANGED <<rRun, rCfg, rSeen>>
RunOffsets == symmetricOffsets(rRing * rT)
RingU == RunOffsets[rIdx + 1]
RingThis == RingBody(rCfg, rX, rS, rRing, RingU, rChecked)

\* if (N < 4n) { "N must be >= 4."; return; }
RingTooSmall ==
  /\ rPc = "start" /\ rCfg.N < 4
  /\ rOut' = [kind |-> "toosmall"]
  /\ rPc' = "done"
  /\ UNCHANGED <<rP, rT, rS, rX, rRing, rIdx, rChecked, rTested>>
  /\ RingFrame /\ UNCHANGED notRing

\* P, T, S and X are computed; let ring = 0
RingDerive ==
  /\ rPc = "start" /\ ~(rCfg.N < 4)
  /\ rP' = Max(5, FloorTimes(rCfg.c1, lnBigIntApprox(rCfg.N)))
  /\ rT' = Max(8, FloorTimes(rCfg.c2, MulFix(lnBigIntApprox(rCfg.N),
                                             lnBigIntApprox(rCfg.N))))
  /\ rS' = primesUpTo(rP')
  /\ rX' = isqrt(rCfg.N)
  /\ rRing' = 0
  /\ rPc' = "ring"
  /\ UNCHANGED <<rIdx, rChecked, rTested, rOut>>
  /\ RingFrame /\ UNCHANGED notRing

\* ring <= K: const R = ring * T, the generator is created
RingEnter ==
  /\ rPc = "ring" /\ rRing <= rCfg.K
  /\ rIdx' = 0
  /\ rPc' = "offs"
  /\ UNCHANGED <<rP, rT, rS, rX, rRing, rChecked, rTested, rOut>>
  /\ RingFrame /\ UNCHANGED notRing

\* ring <= K fails: "No factor found within K rings."
RingNoFactor ==
  /\ rPc = "ring" /\ ~(rRing <= rCfg.K)
  /\ rOut' = [kind |-> "notfound", checked |-> rChecked]
  /\ rPc' = "done"
  /\ UNCHANGED <<rP, rT, rS, rX, rRing, rIdx, rChecked, rTested>>
  /\ RingFrame /\ UNCHANGED notRing

\* the generator is exhausted: ring++
RingLeave ==
  /\ rPc = "offs" /\ rIdx >= Len(RunOffsets)
  /\ rRing' = rRing + 1
  /\ rPc' = "ring"
  /\ UNCHANGED <<rP, rT, rS, rX, rIdx, rChecked, rTested, rOut>>
  /\ RingFrame /\ UNCHANGED notRing

\* an offset inside the rings already scanned: continue
RingSkip ==
  /\ rPc = "offs" /\ rIdx < Len(RunOffsets)
  /\ OnlyNewRing(rRing, RingU, rT)
  /\ rIdx' = rIdx + 1
  /\ UNCHANGED <<rP, rT, rS, rX, rRing, rChecked, rTested, rOut, rPc>>
  /\ RingFrame /\ UNCHANGED notRing

\* the body of the loop ends the run: a hit, the ring 0 report, or a throw
RingReport ==
  /\ rPc = "offs" /\ rIdx < Len(RunOffsets)
  /\ ~OnlyNewRing(rRing, RingU, rT)
  /\ RingThis.kind # "none"
  /\ rChecked' = RingThis.checked
  /\ rTested' = rTested \cup RingThis.tests
  /\ rOut' = [k \in DOMAIN RingThis \ {"tests"} |-> RingThis[k]]
  /\ rPc' = "done"
  /\ UNCHANGED <<rP, rT, rS, rX, rRing, rIdx>>
  /\ RingFrame /\ UNCHANGED notRing

\* neither candidate divides N: the next offset
RingMiss ==
  /\ rPc = "offs" /\ rIdx < Len(RunOffsets)
  /\ ~OnlyNewRing(rRing, RingU, rT)
  /\ RingThis.kind = "none"
  /\ rChecked' = RingThis.checked
  /\ rTested' = rTested \cup RingThis.tests
  /\ rIdx' = rIdx + 1
  /\ UNCHANGED <<rP, rT, rS, rX, rRing, rOut, rPc>>
  /\ RingFrame /\ UNCHANGED notRing

\* the next click: runFactorization is called on the next arguments
RingAgain ==
  /\ rPc = "done" /\ rRun < NumRingRuns
  /\ rSeen' = rSeen \cup {rOut}
  /\ rRun' = rRun + 1
  /\ rCfg' = RingRuns(rRun + 1)
  /\ rP' = 0 /\ rT' = 0 /\ rS' = <<>> /\ rX' = 0
  /\ rRing' = 0 /\ rIdx' = 0 /\ rChecked' = 0 /\ rTested' = {}
  /\ rOut' = NoReport /\ rPc' = "start"
  /\ UNCHANGED notRing

RingNext ==
  \/ RingTooSmall \/ RingDerive \/ RingEnter \/ RingNoFactor \/ RingLeave
  \/ RingSkip \/ RingReport \/ RingMiss \/ RingAgain

SpecRing == RingInit /\ [][RingNext]_vars

\* C15: in ring k >= 1 the offsets whose candidates are tested for
\* divisibility are exactly those with (k-1)*T < |u| <= k*T, so that no
\* offset is tested in more than one ring
C15_RingsTestDisjointBands ==
  /\ \A e \in rTested :
        e.ring >= 1 =>
          (e.ring - 1) * rT < Abs(e.off) /\ Abs(e.off) <= e.ring * rT
  /\ \A e \in rTested : \A f \in rTested : e.off = f.off => e.ring = f.ring
  /\ ~rCfg.usePrefilter =>
        \A k \in 1..(rRing - 1) : \A u \in (-k * rT)..(k * rT) :
          (k - 1) * rT < Abs(u) => [ring |-> k, off |-> u] \in rTested
\* what holds of the code: ring k >= 1 tests offsets with
\* (k-1)*T <= |u| <= k*T, every one of them without the prefilter, and the
\* offsets with |u| = (k-1)*T are tested in ring k-1 and again in ring k
C15_RingsOverlapAtTheEdge ==
  /\ \A e \in rTested :
        e.ring >= 1 =>
          (e.ring - 1) * rT <= Abs(e.off) /\ Abs(e.off) <= e.ring * rT
  /\ \A e \in rTested : \A f \in rTested :
        e.off = f.off /\ e.ring < f.ring =>
          f.ring = e.ring + 1 /\ Abs(e.off) = e.ring * rT
  /\ ~rCfg.usePrefilter =>
        \A k \in 1..(rRing - 1) : \A u \in (-k * rT)..(k * rT) :
          (k - 1) * rT <= Abs(u) => [ring |-> k, off |-> u] \in rTested
\* ring 1 has tested the centre that ring 0 had tested
C15_Witness ==
  [ring |-> 0, off |-> 0] \in rTested /\ [ring |-> 1, off |-> 0] \in rTested

\* the reports of all the runs made so far
RingReports == rSeen \cup (IF rPc = "done" THEN {rOut} ELSE {})
\* C16: ring 0 applies the cap of 3 admissible tests: among the runs there
\* is one that ends with "No factor within bounded correction at ring 0"
\* after 3 admissible candidates were tested without a hit
C16_RingZeroCapFires ==
  (rRun = NumRingRuns /\ rPc = "done") =>
    \E o \in RingReports : o.kind = "bounded0" /\ o.checked = 3
\* what holds of the code: ring 0 is the single offset 0, at most one
\* candidate is tested in it, and the report of ring 0 is never written
C16_RingZeroIsOneOffset ==
  /\ rPc \in {"offs", "done"} /\ rRing = 0 =>
        RunOffsets = <<0>> /\ rChecked <= 1
  /\ \A o \in RingReports : o.kind # "bounded0"
\* all the runs are made, and one of them went through ring 0 to the end
\* of ring 2 without a hit
C16_Witness ==
  /\ rRun = NumRingRuns /\ rPc = "done"
  /\ \E o \in RingReports : o.kind = "notfound" /\ o.checked > 3

\* p * q = N with both factors strictly between 1 and N
ProperSplit(p, q, N) == p * q = N /\ 1 < p /\ p < N /\ 1 < q /\ q < N
\* C28 as stated, for runFactorization: a reported factor p with partner q
\* is a nontrivial split of N, the prefilter on or off
C28_HitIsProperSplit ==
  rOut.kind = "hit" => ProperSplit(rOut.p, rOut.q, rCfg.N)
\* what holds of the code: the product of the two is N, and both are at
\* least 1
C28_HitIsSplit ==
  rOut.kind = "hit" =>
    rOut.p * rOut.q = rCfg.N /\ rOut.p >= 1 /\ rOut.q >= 1
\* the prefilter off: for the prime 97, isqrt(97) = 9, the candidate
\* b = 9 - 8 = 1 divides N
C28_Witness ==
  /\ rPc = "done" /\ rCfg.N = 97 /\ ~rCfg.usePrefilter
  /\ rOut.kind = "hit" /\ rOut.p = 1 /\ rOut.q = 97
\* the prefilter on: for the prime 7 the candidate a = 2 + 5 = 7 passes the
\* prefilter and divides N
C28_PrefilterWitness ==
  /\ rPc = "done" /\ rCfg.N = 7 /\ rCfg.usePrefilter
  /\ rOut.kind = "hit" /\ rOut.p = 7 /\ rOut.q = 1

(***************************************************************************)
(* parseBigIntExpr (src/script.js 36-63, src/unnamed/part_000 28-63,       *)
(* src/paper.md 161-199).  A string is a sequence of characters.  A BigInt *)
(* of the function is 10^e + c, held as [e, c] when e >= 9 and as the      *)
(* plain integer [e |-> -1, c] below, |c| < 10^9.                          *)
(***************************************************************************)
Digits == {"0", "1", "2", "3", "4", "5", "6", "7", "8", "9"}
WhiteSpace == {" "}
DigitValue(ch) ==
  CASE ch = "0" -> 0 [] ch = "1" -> 1 [] ch = "2" -> 2 [] ch = "3" -> 3
    [] ch = "4" -> 4 [] ch = "5" -> 5 [] ch = "6" -> 6 [] ch = "7" -> 7
    [] ch = "8" -> 8 [] ch = "9" -> 9
\* BigInt(s) for a sequence of digits
ToNat(s) ==
  LET RECURSIVE val(_)
      val(i) == IF i = 0 THEN 0 ELSE 10 * val(i - 1) + DigitValue(s[i])
  IN val(Len(s))
Plain(v) == [e |-> -1, c |-> v]
IsPlain(x) == x.e = -1
TenTo(j) == IF j <= 8 THEN Plain(10^j) ELSE [e |-> j, c |-> 0]
\* the exponent of a power of ten
ExponentOf(x) == IF IsPlain(x) THEN CHOOSE j \in 0..8 : 10^j = x.c ELSE x.e
\* x * y: of plain integers, or of powers of ten
MulBI(x, y) ==
  IF IsPlain(x) /\ IsPlain(y) /\ x.c <= 10^4 /\ y.c <= 10^4
  THEN Plain(x.c * y.c)
  ELSE TenTo(ExponentOf(x) + ExponentOf(y))
\* tenPow + c and tenPow - c
AddBI(t, c) == IF IsPlain(t) THEN Plain(t.c + c) ELSE [e |-> t.e, c |-> c]
SubBI(t, c) == IF IsPlain(t) THEN Plain(t.c - c) ELSE [e |-> t.e, c |-> -c]
\* one pass of the while loop of powBI
powBIStep(st) ==
  [r |-> IF st.exp % 2 = 1 THEN MulBI(st.r, st.base) ELSE st.r,
   base |-> MulBI(st.base, st.base),
   exp |-> st.exp \div 2]
powBI(a, e) ==
  LET RECURSIVE loop(_)
      loop(st) == IF st.exp > 0 THEN loop(powBIStep(st)) ELSE st.r
  IN loop([r |-> Plain(1), base |-> a, exp |-> e])

\* raw.trim()
Trim(raw) ==
  LET ink == {i \in 1..Len(raw) : raw[i] \notin WhiteSpace}
  IN IF ink = {} THEN <<>>
     ELSE SubSeq(raw, CHOOSE i \in ink : \A j \in ink : i <= j,
                      CHOOSE i \in ink : \A j \in ink : i >= j)
\* .replace(/\s+/g, "")
NotWhiteSpace(ch) == ch \notin WhiteSpace
RemoveWhiteSpace(s) == SelectSeq(s, NotWhiteSpace)
\* a faulty variant of isDigitsOnly, * for + (sensitivity of C19)
isDigitsOnlyStar(s) == \A i \in 1..Len(s) : s[i] \in Digits
\* /^[0-9]+$/.test(s)
isDigitsOnly(s) == Len(s) >= 1 /\ \A i \in 1..Len(s) : s[i] \in Digits
NoMatch == [matched |-> FALSE, k |-> <<>>, op |-> "", c |-> <<>>]
\* /^10\^([0-9]+)(?:([+\-])([0-9]+))?$/.exec(s): the first group takes the
\* longest run of digits
MatchPower(s) ==
  IF ~(Len(s) >= 4 /\ s[1] = "1" /\ s[2] = "0" /\ s[3] = "^" /\ s[4] \in Digits)
  THEN NoMatch
  ELSE LET ends == {i \in 4..Len(s) : \A j \in 4..i : s[j] \in Digits}
           kEnd == CHOOSE i \in ends : \A j \in ends : i >= j
           k == SubSeq(s, 4, kEnd)
       IN IF kEnd = Len(s)
          THEN [matched |-> TRUE, k |-> k, op |-> "", c |-> <<>>]
          ELSE IF s[kEnd + 1] \in {"+", "-"}
                  /\ isDigitsOnly(SubSeq(s, kEnd + 2, Len(s)))
          THEN [matched |-> TRUE, k |-> k, op |-> s[kEnd + 1],
                c |-> SubSeq(s, kEnd + 2, Len(s))]
          ELSE NoMatch

\* the definitions, and what differs between them
ParseDefs == {"src/script.js", "src/unnamed/part_000", "src/paper.md"}
\* if (k > 2000n): 20000n in src/paper.md
LogOnlyAbove(def) == IF def = "src/paper.md" THEN 20000 ELSE 2000
\* if (s.length === 0) return {ok: false, ...}: not in src/paper.md
ChecksEmpty(def) == def # "src/paper.md"
NullBig == [null |-> TRUE]

parseBigIntExpr(def, raw) ==
  LET s == RemoveWhiteSpace(Trim(raw))
  IN IF ChecksEmpty(def) /\ Len(s) = 0
     THEN [ok |-> FALSE, err |-> "empty"]
     ELSE IF isDigitsOnly(s)
     THEN [ok |-> TRUE, big |-> Plain(ToNat(s)), approxLog10 |-> Len(s) - 1,
           mode |-> "big"]
     ELSE LET m == MatchPower(s)
          IN IF ~m.matched
             THEN [ok |-> FALSE, err |-> "unsupported"]
             ELSE LET k == ToNat(m.k)
                      c == IF m.op # "" THEN ToNat(m.c) ELSE 0
                      tenPow == powBI(Plain(10), k)
                  IN IF k > LogOnlyAbove(def)
                     THEN [ok |-> TRUE, big |-> NullBig, approxLog10 |-> k,
                           mode |-> "logonly", adjust |-> [op |-> m.op, c |-> c]]
                     ELSE [ok |-> TRUE,
                           big |-> IF m.op = "+" THEN AddBI(tenPow, c)
                                   ELSE IF m.op = "-" THEN SubBI(tenPow, c)
                                   ELSE tenPow,
                           approxLog10 |-> k, mode |-> "big"]

\* the strings drawn: every string of RawChars up to MaxRawLen characters,
\* and SpecialRaw
MaxRawLen == 4
RawChars == {"0", "1", "2", "^", "+", "-", " ", "x"}
SpecialRaw ==
  { <<"1", "0", "^", "2", "+", "1">>, <<"1", "0", "^", "2", "-", "1">>,
    <<"1", "0", "^", "1", "-", "2", "0">>, <<"1", "0", "^", "0", "-", "1">>,
    <<"1", "0", " ", "^", " ", "2", " ", "+", " ", "1">>,
    <<" ", "1", "0", "^", "9", " ">>, <<"1", "0", "^", "1", "2", "+", "7">>,
    <<"1", "0", "^", "2", "+", "-", "1">>, <<"1", "0", "^", "2", "+", "1", "x">>,
    <<"1", "0", "^", "2", "0", "0", "0">>, <<"1", "0", "^", "2", "0", "0", "1">>,
    <<"1", "0", "^", "2", "0", "0", "0", "-", "1">>,
    <<"1", "0", "^", "2", "0", "0", "1", "+", "5">>,
    <<"1", "0", "^", "1", "9", "9", "9", "+", "9", "9", "9">>,
    <<"1", "0", "^", "2", "0", "0", "0", "0">>,
    <<"1", "0", "^", "2", "0", "0", "0", "1">>,
    <<"1", "2", "3", "4", "5", "6", "7", "8", "9">>,
    <<"0", "0", "7">> }
RawStrings == UNION {[1..n -> RawChars] : n \in 0..MaxRawLen} \cup SpecialRaw

ParseInit ==
  /\ qDef \in ParseDefs
  /\ qRaw \in RawStrings
  /\ qRet = [ok |-> FALSE] /\ qDone = FALSE
  /\ FactorIdle /\ SearchIdle /\ PureIdle /\ XIdle /\ GenIdle /\ RingIdle

CallParse ==
  /\ ~qDone
  /\ qRet' = parseBigIntExpr(qDef, qRaw)
  /\ qDone' = TRUE
  /\ UNCHANGED <<qDef, qRaw>> /\ UNCHANGED notParse

ParseNext == CallParse

SpecParse == ParseInit /\ [][ParseNext]_vars

\* s is digits k, or digits k then + or - then digits c
DigitsThenAdjust(s) ==
  \E i \in 1..Len(s) :
    /\ \A j \in 1..i : s[j] \in Digits
    /\ \/ i = Len(s)
       \/ /\ i + 2 <= Len(s) /\ s[i + 1] \in {"+", "-"}
          /\ \A j \in (i + 2)..Len(s) : s[j] \in Digits
\* s is a nonempty sequence of digits, or 10^k, 10^k+c or 10^k-c
WellFormed(s) ==
  \/ Len(s) >= 1 /\ \A i \in 1..Len(s) : s[i] \in Digits
  \/ /\ Len(s) >= 4 /\ SubSeq(s, 1, 3) = <<"1", "0", "^">>
     /\ DigitsThenAdjust(SubSeq(s, 4, Len(s)))
\* no white space at either end
IsTrimmed(s) ==
  s = <<>> \/ (s[1] \notin WhiteSpace /\ s[Len(s)] \notin WhiteSpace)
\* C19 as stated: on a trimmed string parseBigIntExpr returns ok exactly
\* when the string is a nonempty sequence of digits or 10^k[+c|-c]; every
\* other string, one with white space inside it included, gives
\* {ok: false}
C19_OkExactlyOnTheTwoForms ==
  (qDone /\ IsTrimmed(qRaw)) => (qRet.ok <=> WellFormed(qRaw))
\* C19 as the code computes it: parseBigIntExpr returns ok exactly when the
\* string is of one of the two forms once ALL its white space is removed,
\* at the ends and inside; every other string gives {ok: false} with an
\* error message
C19_OkOnTheTwoFormsUpToWhiteSpace ==
  qDone =>
    /\ qRet.ok <=> WellFormed(RemoveWhiteSpace(qRaw))
    /\ ~qRet.ok => qRet.err \in {"empty", "unsupported"}
    /\ (IsTrimmed(qRaw) /\ RemoveWhiteSpace(qRaw) = qRaw) =>
          (qRet.ok <=> WellFormed(qRaw))
\* "10 ^ 2 + 1", white space inside, has been parsed as 101
C19_Witness ==
  /\ qDone /\ qRaw = <<"1", "0", " ", "^", " ", "2", " ", "+", " ", "1">>
  /\ qRet.ok /\ qRet.big = Plain(101)

\* what the string asks for, if it is of the form 10^k[+c|-c]
Asked == MatchPower(RemoveWhiteSpace(qRaw))
AskedK == ToNat(Asked.k)
AskedC ==
  IF Asked.op = "+" THEN ToNat(Asked.c)
  ELSE IF Asked.op = "-" THEN -ToNat(Asked.c) ELSE 0
\* 10^k + c, the power by k multiplications by 10
TenToPlus(k, c) == IF k <= 8 THEN Plain(10^k + c) ELSE [e |-> k, c |-> c]
\* the result for 10^k[+c|-c] when the preview starts above limit
PowerParsedWithLimit(limit) ==
  IF AskedK > limit
  THEN qRet.ok /\ qRet.mode = "logonly" /\ qRet.approxLog10 = AskedK
       /\ qRet.big = NullBig
  ELSE qRet.ok /\ qRet.mode = "big" /\ qRet.big = TenToPlus(AskedK, AskedC)
       /\ powBI(Plain(10), AskedK) = TenToPlus(AskedK, 0)
\* C20 as stated: in each of the three definitions 10^k[+c|-c] with
\* k > 2000 gives the log-only preview with approxLog10 = k and big = null,
\* and with k <= 2000 gives mode "big" with big = 10^k + c or 10^k - c, the
\* power being what k multiplications by 10 give
C20_PreviewAbove2000Everywhere ==
  (qDone /\ Asked.matched) => PowerParsedWithLimit(2000)
\* what holds of the code: the same with the limit 2000 in src/script.js
\* and src/unnamed/part_000, and 20000 in src/paper.md
C20_PreviewAboveTheLimitOfEachFile ==
  (qDone /\ Asked.matched) =>
    PowerParsedWithLimit(IF qDef = "src/paper.md" THEN 20000 ELSE 2000)
\* parseBigIntExpr of src/paper.md has materialized 10^2001
C20_Witness ==
  /\ qDone /\ qDef = "src/paper.md"
  /\ qRaw = <<"1", "0", "^", "2", "0", "0", "1">>
  /\ qRet.mode = "big" /\ qRet.big = [e |-> 2001, c |-> 0]

(***************************************************************************)
(* Single calls of the admissibility filters and of the primality tests.   *)
(***************************************************************************)
\* the arguments drawn
MaxPureX == 30
MaxPureU == 8
MaxPureP == 7
MaxPureN == 60
\* beyond 1..MaxPureN: squares and products of primes above 37, strong
\* pseudoprimes to the first bases (2047, 8321, 1373653, 25326001), primes
SpecialPureN ==
  {961, 1147, 1369, 1681, 2047, 8321, 1009, 7919, 1373653, 25326001, 1073741789}
PureN == (0..MaxPureN) \cup SpecialPureN
\* outputs of rnd32(): the ends of its range, and its first output
DrawValues == {0, 1, 231794736, 2147483647}

\* the arguments of the isqrt functions: -MaxSqrtNeg..MaxSqrtN, and values
\* next to larger squares (10000 = 100 * 100, 32761 = 181 * 181)
MaxSqrtNeg == 3
MaxSqrtN == 300
SpecialSqrtN == {9999, 10000, 10001, 32760, 32761, 32767}
SqrtN == ((-MaxSqrtNeg)..MaxSqrtN) \cup SpecialSqrtN
IsqrtFns == {"isqrt (bit by bit)", "isqrt (Newton from n)",
             "isqrt (Newton from the decimal length)"}
\* what a call gives: a value, or an Error thrown
Value(v) == [threw |-> FALSE, value |-> v]
Throws == [threw |-> TRUE, value |-> 0]
\* n.toString().length for n >= 0
DecimalLength(n) ==
  LET RECURSIVE len(_)
      len(m) == IF m < 10 THEN 1 ELSE 1 + len(m \div 10)
  IN len(n)
\* a faulty variant of isqrtDecimalSeed, 2^L for 4^L (sensitivity of C18)
isqrtDecimalSeedSmall(n) == 2^DecimalLength(n)
\* let x0 = 1n << (BigInt(n.toString().length) * 2n)
isqrtDecimalSeed(n) == 2^(DecimalLength(n) * 2)
\* isqrt of src/paper.md: Newton's iteration from that seed
isqrtDecimal(n) ==
  IF n < 2 THEN n
  ELSE LET RECURSIVE loop(_, _)
           loop(x0, x1) ==
             IF x1 < x0 THEN loop(x1, (x1 + n \div x1) \div 2) ELSE x0
           seed == isqrtDecimalSeed(n)
       IN loop(seed, (seed + n \div seed) \div 2)
\* if (n < 0n) throw new Error(...), the first line of each isqrt
isqrtCall(fn, n) ==
  IF n < 0 THEN Throws
  ELSE IF fn = "isqrt (bit by bit)" THEN Value(isqrt(n))
  ELSE IF fn = "isqrt (Newton from n)" THEN Value(isqrtNewton(n))
  ELSE Value(isqrtDecimal(n))

\* the arguments of fermatFactor: the odd n in 3..MaxFermatN, primes
\* included, and maxSteps in 0..MaxFermatSteps
MaxFermatN == 75
MaxFermatSteps == 12
FermatN == {n \in 3..MaxFermatN : n % 2 = 1}

\* the arguments of modPow: base in -MaxModBase..MaxModBase, exp in
\* 0..MaxModExp, mod in 1..MaxModulus
MaxModBase == 5
MaxModExp == 4
MaxModulus == 6
\* a % m on BigInt for m > 0: the remainder has the sign of a
Rem(a, m) == IF a >= 0 THEN a % m ELSE -((-a) % m)
\* modPow (src/unnamed/part_000 105-115, src/script.js 312-320) on operands
\* of either sign; modPow above is the same loop on operands >= 0 held as
\* two limbs
modPowSigned(base, exp, mod) ==
  LET RECURSIVE loop(_, _, _)
      loop(b, e, r) ==
        IF e > 0
        THEN loop(Rem(b * b, mod), e \div 2,
                  IF e % 2 = 1 THEN Rem(r * b, mod) ELSE r)
        ELSE r
  IN loop(Rem(base, mod), exp, 1)

\* the arguments of primesUpTo: 0..MaxSieveP, and Numbers beyond 31 bits held
\* as <<hi, lo>> = hi * 2^25 + lo: 2^31, 2^32 + 10
MaxSieveP == 40
SieveP == {Big(P) : P \in 0..MaxSieveP} \cup {<<64, 0>>, <<128, 10>>}
\* primesUpTo on a Number: const n = Math.max(2, P|0), then the sieve
primesUpToNumber(P) == primesUpTo(ToInt32(P))

PureInit ==
  /\ pFn \in {"admissibleSingle", "admissibleGoldbach", "admissibleAroundSqrt",
              "isProbablePrime", "isPrime64", "fermatFactor", "modPow",
              "primesUpTo"} \cup IsqrtFns
  /\ IF pFn = "fermatFactor"
     THEN /\ pN \in FermatN
          /\ pRounds \in 0..MaxFermatSteps
          /\ pDraws = <<>>
          /\ pX = 0 /\ pU = 0 /\ pP = 0 /\ pAbort = FALSE
     ELSE IF pFn = "modPow"
     THEN /\ pX \in (-MaxModBase)..MaxModBase
          /\ pU \in 0..MaxModExp
          /\ pP \in 1..MaxModulus
          /\ pN = 0 /\ pRounds = 0 /\ pDraws = <<>> /\ pAbort = FALSE
     ELSE IF pFn = "primesUpTo"
     THEN /\ pP \in SieveP
          /\ pN = 0 /\ pRounds = 0 /\ pDraws = <<>>
          /\ pX = 0 /\ pU = 0 /\ pAbort = FALSE
     ELSE IF pFn \in IsqrtFns
     THEN /\ pN \in SqrtN
          /\ pRounds = 0 /\ pDraws = <<>>
          /\ pX = 0 /\ pU = 0 /\ pP = 0 /\ pAbort = FALSE
     ELSE IF pFn \in {"admissibleSingle", "admissibleGoldbach", "admissibleAroundSqrt"}
     THEN /\ pX \in 0..MaxPureX
          /\ pU \in (-MaxPureU)..MaxPureU
          /\ pP \in 2..MaxPureP
          /\ pAbort \in (IF pFn = "admissibleAroundSqrt" THEN BOOLEAN ELSE {FALSE})
          /\ pN = 0 /\ pRounds = 0 /\ pDraws = <<>>
     ELSE /\ pN \in PureN
          /\ IF pFn = "isProbablePrime"
             THEN \/ pRounds \in {-1, 0, 1, 3, 7} /\ pDraws = <<>>
                  \/ pRounds = 9 /\ pDraws \in [1..2 -> DrawValues]
             ELSE pRounds = 0 /\ pDraws = <<>>
          /\ pX = 0 /\ pU = 0 /\ pP = 0 /\ pAbort = FALSE
  /\ pRet = FALSE /\ pDone = FALSE
  /\ FactorIdle /\ SearchIdle /\ XIdle /\ MoreIdle

Return(v) ==
  /\ pRet' = v
  /\ pDone' = TRUE
  /\ UNCHANGED <<pFn, pX, pU, pP, pAbort, pN, pRounds, pDraws>>
  /\ UNCHANGED notPure

CallAdmissibleSingle ==
  /\ ~pDone /\ pFn = "admissibleSingle"
  /\ Return(admissibleSingle(pX, pU, primesUpTo(pP)))

CallAdmissibleGoldbach ==
  /\ ~pDone /\ pFn = "admissibleGoldbach"
  /\ Return(admissibleGoldbach(pX, pU, primesUpTo(pP)))

CallAdmissibleAroundSqrt ==
  /\ ~pDone /\ pFn = "admissibleAroundSqrt"
  /\ Return(admissibleAroundSqrt(pX, pU, primesUpTo(pP), pAbort))

CallIsProbablePrime ==
  /\ ~pDone /\ pFn = "isProbablePrime"
  /\ Return(isProbablePrime(Big(pN), pRounds, pDraws))

CallIsPrime64 ==
  /\ ~pDone /\ pFn = "isPrime64"
  /\ Return(isPrime64(Big(pN)))

CallIsqrt ==
  /\ ~pDone /\ pFn \in IsqrtFns
  /\ Return(isqrtCall(pFn, pN))

CallFermatFactor ==
  /\ ~pDone /\ pFn = "fermatFactor"
  /\ Return(fermatFactor(pN, pRounds))

CallModPow ==
  /\ ~pDone /\ pFn = "modPow"
  /\ Return(modPowSigned(pX, pU, pP))

CallPrimesUpTo ==
  /\ ~pDone /\ pFn = "primesUpTo"
  /\ Return(primesUpToNumber(pP))

PureNext ==
  \/ CallAdmissibleSingle \/ CallAdmissibleGoldbach \/ CallAdmissibleAroundSqrt
  \/ CallIsProbablePrime \/ CallIsPrime64 \/ CallIsqrt
  \/ CallFermatFactor \/ CallModPow \/ CallPrimesUpTo

SpecPure == PureInit /\ [][PureNext]_vars

\* C18: each isqrt of the repository returns, for n >= 0, the r with
\* r * r <= n < (r + 1) * (r + 1), and throws for n < 0
C18_IsqrtIsFloorOfRoot ==
  (pDone /\ pFn \in IsqrtFns) =>
    IF pN < 0 THEN pRet.threw
    ELSE /\ ~pRet.threw
         /\ pRet.value >= 0
         /\ pRet.value * pRet.value <= pN
         /\ pN < (pRet.value + 1) * (pRet.value + 1)
\* the root of a square above the seed of a short decimal length
C18_Witness ==
  /\ pDone /\ pFn = "isqrt (Newton from the decimal length)"
  /\ pN = 32761 /\ pRet = Value(181)

\* a * a - n is a perfect square
SquareAbove(a, n) == \E b \in 0..a : b * b = a * a - n
\* ceil(sqrt(n)), by its definition
CeilRoot(n) == CHOOSE a \in 0..n : a * a >= n /\ \A c \in 0..(a - 1) : c * c < n
\* C21: fermatFactor(n, maxSteps) on an odd n returns null or a pair [p, q]
\* with 1 < p <= q < n and p * q = n, never 1 * n; on an odd composite n it
\* returns null only when none of the maxSteps values a = ceil(sqrt(n)),
\* ceil(sqrt(n)) + 1, ... makes a * a - n a perfect square
C21_FermatSplitIsProper ==
  (pDone /\ pFn = "fermatFactor") =>
    IF pRet = <<>>
    THEN ~IsPrime(pN) =>
           \A i \in 0..(pRounds - 1) : ~SquareAbove(CeilRoot(pN) + i, pN)
    ELSE /\ 1 < pRet[1] /\ pRet[1] <= pRet[2] /\ pRet[2] < pN
         /\ pRet[1] * pRet[2] = pN
\* 55 = 5 * 11 is split at a = 8, the first a being 8 = ceil(sqrt(55))
C21_Witness ==
  /\ pDone /\ pFn = "fermatFactor"
  /\ pN = 55 /\ pRounds = 1 /\ pRet = <<5, 11>>

\* base^exponent by repeated multiplication
Power(b, e) ==
  LET RECURSIVE pw(_)
      pw(k) == IF k = 0 THEN 1 ELSE b * pw(k - 1)
  IN pw(e)
\* C22 as stated: modPow(base, exponent, modulus) with exponent >= 0 and
\* modulus >= 1 returns r with 0 <= r < modulus and r congruent to
\* base^exponent modulo modulus
C22_ModPowInRangeAndCongruent ==
  (pDone /\ pFn = "modPow") =>
    /\ 0 <= pRet /\ pRet < pP
    /\ (pRet - Power(pX, pU)) % pP = 0
\* what holds of the code: r is congruent to base^exponent, and in
\* 0..modulus-1 when base >= 0 and (exponent > 0 or modulus > 1)
C22_ModPowCongruent ==
  (pDone /\ pFn = "modPow") =>
    /\ (pRet - Power(pX, pU)) % pP = 0
    /\ (-pP) < pRet /\ pRet <= Max(1, pP - 1)
    /\ (pX >= 0 /\ (pU > 0 \/ pP > 1)) => (0 <= pRet /\ pRet < pP)
\* modPow(5, 0, 1) returns 1, which is not below the modulus
C22_Witness ==
  /\ pDone /\ pFn = "modPow"
  /\ pX = 5 /\ pU = 0 /\ pP = 1 /\ pRet = 1
\* modPow(-1, 1, 3) returns -1
C22_NegativeWitness ==
  /\ pDone /\ pFn = "modPow"
  /\ pX = -1 /\ pU = 1 /\ pP = 3 /\ pRet = -1

\* max(2, P) for a Number P as <<hi, lo>>
Max2(P) == IF BLt(P, Big2) THEN Big2 ELSE P
\* the primes of 2..MaxSieveP that are at most P, P a Number as <<hi, lo>>
SmallPrimesUpTo(P) ==
  {p \in 2..MaxSieveP : IsPrime(p) /\ ~BLt(P, Big(p))}
\* C23 as stated, for the primes up to MaxSieveP: primesUpTo(P), P >= 0,
\* returns in strictly ascending order primes p with 2 <= p <= max(2, P),
\* and each such prime
C23_SievesUpToP ==
  (pDone /\ pFn = "primesUpTo") =>
    /\ \A i \in 1..(Len(pRet) - 1) : pRet[i] < pRet[i + 1]
    /\ \A i \in 1..Len(pRet) :
         IsPrime(pRet[i]) /\ ~BLt(Max2(pP), Big(pRet[i]))
    /\ \A p \in SmallPrimesUpTo(Max2(pP)) : \E i \in 1..Len(pRet) : pRet[i] = p
\* what holds of the code: the same with P|0 for P
C23_SievesUpToInt32OfP ==
  (pDone /\ pFn = "primesUpTo") =>
    LET n == Max(2, ToInt32(pP))
    IN /\ \A i \in 1..(Len(pRet) - 1) : pRet[i] < pRet[i + 1]
       /\ \A i \in 1..Len(pRet) : IsPrime(pRet[i]) /\ pRet[i] <= n
       /\ \A p \in 2..MaxSieveP + 1 :
            (IsPrime(p) /\ p <= n) => \E i \in 1..Len(pRet) : pRet[i] = p
\* primesUpTo(4294967306) returns the primes up to 10
C23_Witness ==
  /\ pDone /\ pFn = "primesUpTo"
  /\ pP = <<128, 10>> /\ pRet = <<2, 3, 5, 7>>
\* primesUpTo(30) returns the ten primes up to 29
C23_SmallWitness ==
  /\ pDone /\ pFn = "primesUpTo"
  /\ pP = Big(30) /\ pRet = <<2, 3, 5, 7, 11, 13, 17, 19, 23, 29>>

(***************************************************************************)
(* Properties of the filters and of the primality tests.                   *)
(***************************************************************************)
\* C6: admissibleSingle(X, u, primesUpTo(P)) is true exactly when X + u >= 2
\* and every s of S that divides X + u is X + u itself; a prime candidate
\* is never rejected
C6_AdmissibleSingleExact ==
  (pDone /\ pFn = "admissibleSingle") =>
     LET Xu == pX + pU
         S == primesUpTo(pP)
     IN /\ pRet <=> (Xu >= 2 /\ \A i \in 1..Len(S) : Xu % S[i] = 0 => S[i] = Xu)
        /\ IsPrime(Xu) => pRet
\* a candidate that is an odd prime of S is accepted
C6_Witness ==
  /\ pDone /\ pFn = "admissibleSingle" /\ pRet
  /\ pX + pU > 2 /\ \E i \in 1..Len(primesUpTo(pP)) : primesUpTo(pP)[i] = pX + pU

\* C7: admissibleGoldbach and admissibleAroundSqrt return true only if both
\* a = x - t and b = x + t are >= 2 and, for every s of S, each of a and b
\* is s itself or is not divisible by s
C7_PairAcceptedOnlyIfNeitherRejected ==
  (pDone /\ pFn \in {"admissibleGoldbach", "admissibleAroundSqrt"} /\ pRet) =>
     LET a == pX - pU
         b == pX + pU
         S == primesUpTo(pP)
     IN /\ a >= 2 /\ b >= 2
        /\ \A i \in 1..Len(S) :
             (a = S[i] \/ a % S[i] # 0) /\ (b = S[i] \/ b % S[i] # 0)

\* C8: isProbablePrime(n, rounds) is true for every prime n, whatever the
\* rounds (below 7, zero, negative) and whatever rnd32() returns
C8_PrimeNeverRejected ==
  (pDone /\ pFn = "isProbablePrime" /\ IsPrime(pN)) => pRet
\* a prime beyond the small-prime list, tested with two drawn bases
C8_Witness ==
  /\ pDone /\ pFn = "isProbablePrime" /\ pRet
  /\ pN = 1073741789 /\ pRounds = 9 /\ pDraws = <<2147483647, 0>>

\* C9: for n >= 2, isProbablePrime(n, rounds) with rounds >= 7 and
\* isPrime64(n) return true exactly when n has no divisor from 2 to
\* sqrt(n), whatever rnd32() returns
C9_AgreesWithTrialDivision ==
  (/\ pDone /\ pN >= 2
   /\ \/ pFn = "isProbablePrime" /\ pRounds >= 7
      \/ pFn = "isPrime64") =>
     (pRet <=> NoDivisorUpToSqrt(pN))
\* a strong pseudoprime to the bases 2, 3, 5 is rejected by isPrime64
C9_Witness ==
  pDone /\ pFn = "isPrime64" /\ pN = 25326001 /\ ~pRet

(***************************************************************************)
(* FactoriX (src/script.js 1-299): onRun, onStop, onReset and factorize    *)
(* under the event loop.  A click handler or a timer callback runs until   *)
(* the code reaches await pause(0) or returns; the continuation of onRun   *)
(* after await factorize(...) is a microtask and runs with the return.     *)
(***************************************************************************)
\* how many times Run may start factorize
MaxCalls == 2
\* the model's stand-in for the 5000 steps between two pauses inside a ring
\* (src/script.js:209)
YieldEvery == 2
\* the form values a click on Run may read: N, B, T, K, pref
Configs ==
  [N : {3, 10, 21, 97, 133}, B : {0, 3}, T : {2}, K : {0, 2}, pref : BOOLEAN]

Suspended(c) == c.pc \in {"y1", "y2", "y3"}
Me == xCalls[xActive]
Executing(pc) == xActive # 0 /\ Me.pc = pc
Idle == xActive = 0
\* the locals of a call that has just been entered
NewCall(cfg) ==
  [N |-> cfg.N, B |-> cfg.B, T |-> cfg.T, K |-> cfg.K, pref |-> cfg.pref,
   pc |-> "entry", ring |-> 0, idx |-> 0, steps |-> 0, checked |-> 0,
   x |-> 0, S |-> <<>>, res |-> [kind |-> "none"],
   \* history: state.abort was set while the call was suspended
   abortSet |-> FALSE,
   \* history: the offset iterations of the ring loop made since the last
   \* await pause
   since |-> 0]
\* 2) window around sqrt(N): lnN, P, S, x, up to the await pause(0)
Window(c) ==
  [c EXCEPT !.S = primesUpTo(Max(5, FloorTimes(16, lnBigIntApprox(c.N)))),
            !.x = isqrt(c.N),
            !.pc = "y2"]
\* state.abort = true reaches every suspended call
MarkAbort(calls) ==
  [i \in 1..Len(calls) |->
     IF Suspended(calls[i]) THEN [calls[i] EXCEPT !.abortSet = TRUE] ELSE calls[i]]

XInit ==
  /\ running = FALSE /\ abort = FALSE
  /\ xCalls = <<>> /\ xTimers = <<>> /\ xActive = 0 /\ xMsg = "loaded"
  /\ FactorIdle /\ SearchIdle /\ PureIdle /\ MoreIdle

\* onRun: if (state.running) { "Deja en cours"; return; }
OnRunAlready ==
  /\ Idle /\ running
  /\ xMsg' = "already"
  /\ UNCHANGED <<running, abort, xCalls, xTimers, xActive>>
  /\ UNCHANGED notX

\* onRun with an input that does not parse, or a 10^k beyond 2000
OnRunRejected ==
  /\ Idle /\ ~running
  /\ abort' = FALSE
  /\ running' = FALSE
  /\ xMsg' = "rejected"
  /\ UNCHANGED <<xCalls, xTimers, xActive>>
  /\ UNCHANGED notX

\* onRun with an even N: factorize returns without a pause, the result is
\* reported and finally clears state.running
OnRunEven ==
  /\ Idle /\ ~running /\ Len(xCalls) < MaxCalls
  /\ \E cfg \in Configs :
       /\ cfg.N % 2 = 0
       /\ xCalls' = Append(xCalls,
            [NewCall(cfg) EXCEPT !.pc = "ret",
               !.res = [kind |-> "factor", p |-> 2, q |-> cfg.N \div 2, phase |-> "even"]])
  /\ abort' = FALSE
  /\ running' = FALSE
  /\ xMsg' = "run"
  /\ UNCHANGED <<xTimers, xActive>>
  /\ UNCHANGED notX

\* onRun with an odd N: factorize runs to its first await pause(0)
OnRunStart ==
  /\ Idle /\ ~running /\ Len(xCalls) < MaxCalls
  /\ \E cfg \in Configs :
       /\ cfg.N % 2 # 0
       /\ xCalls' = Append(xCalls,
            IF cfg.B > 0 THEN [NewCall(cfg) EXCEPT !.pc = "y1"] ELSE Window(NewCall(cfg)))
  /\ running' = TRUE
  /\ abort' = FALSE
  /\ xTimers' = Append(xTimers, Len(xCalls) + 1)
  /\ xMsg' = "run"
  /\ UNCHANGED xActive
  /\ UNCHANGED notX

\* onStop
OnStop ==
  /\ Idle
  /\ IF ~running
     THEN xMsg' = "nothing-to-stop" /\ UNCHANGED <<abort, xCalls>>
     ELSE abort' = TRUE /\ xCalls' = MarkAbort(xCalls) /\ xMsg' = "stop"
  /\ UNCHANGED <<running, xTimers, xActive>>
  /\ UNCHANGED notX

\* onReset
OnReset ==
  /\ Idle
  /\ abort' = TRUE
  /\ running' = FALSE
  /\ xCalls' = MarkAbort(xCalls)
  /\ xMsg' = "reset"
  /\ UNCHANGED <<xTimers, xActive>>
  /\ UNCHANGED notX

\* the oldest pending timer fires: its call goes on after its await
TimerFires ==
  /\ Idle /\ xTimers # <<>>
  /\ xActive' = Head(xTimers)
  /\ xTimers' = Tail(xTimers)
  /\ xCalls' = [xCalls EXCEPT ![Head(xTimers)].pc =
                  CASE @ = "y1" -> "sweep" [] @ = "y2" -> "ring" [] @ = "y3" -> "offs"]
  /\ UNCHANGED <<running, abort, xMsg>>
  /\ UNCHANGED notX

\* factorize returns res: onRun reports it and finally clears state.running
ReturnWith(res) ==
  /\ xCalls' = [xCalls EXCEPT ![xActive] = [@ EXCEPT !.pc = "ret", !.res = res]]
  /\ running' = FALSE
  /\ xActive' = 0
  /\ UNCHANGED <<abort, xTimers, xMsg>>
  /\ UNCHANGED notX
\* factorize reaches await pause(0) with the locals c
SuspendWith(c) ==
  /\ xCalls' = [xCalls EXCEPT ![xActive] = c]
  /\ xTimers' = Append(xTimers, xActive)
  /\ xActive' = 0
  /\ UNCHANGED <<running, abort, xMsg>>
  /\ UNCHANGED notX
\* factorize goes on with the locals c
GoOnWith(c) ==
  /\ xCalls' = [xCalls EXCEPT ![xActive] = c]
  /\ UNCHANGED <<running, abort, xTimers, xActive, xMsg>>
  /\ UNCHANGED notX
Aborted == [kind |-> "abort"]

\* 1) after the pause: quickSmallFactor, then if (state.abort) return
SweepAborted ==
  /\ Executing("sweep") /\ abort
  /\ ReturnWith(Aborted)

SweepFound ==
  /\ Executing("sweep") /\ ~abort
  /\ LET sf == quickSmallFactor(Me.N, Max(3, Me.B), abort)
     IN /\ sf # 0
        /\ ReturnWith([kind |-> "factor", p |-> sf, q |-> Me.N \div sf, phase |-> "small"])

SweepNone ==
  /\ Executing("sweep") /\ ~abort
  /\ quickSmallFactor(Me.N, Max(3, Me.B), abort) = 0
  /\ SuspendWith(Window(Me))

\* for (ring...; ring <= K; ...) is left: the not-found result
RingsExhausted ==
  /\ Executing("ring") /\ Me.ring > Me.K
  /\ ReturnWith([kind |-> "notfound", checked |-> Me.checked])

\* top of a ring: if (state.abort) return
RingAborted ==
  /\ Executing("ring") /\ Me.ring <= Me.K /\ abort
  /\ ReturnWith(Aborted)

RingBegin ==
  /\ Executing("ring") /\ Me.ring <= Me.K /\ ~abort
  /\ GoOnWith([Me EXCEPT !.steps = 0, !.idx = 0, !.pc = "offs"])

RingOffsets == symmetricOffsets(Me.ring * Me.T)
U == RingOffsets[Me.idx + 1]

\* symmetricOffsets(R) is exhausted: ring++
OffsetsDone ==
  /\ Executing("offs") /\ Me.idx >= Len(RingOffsets)
  /\ GoOnWith([Me EXCEPT !.ring = @ + 1, !.pc = "ring"])

\* top of an offset: if (state.abort) return
OffsetAborted ==
  /\ Executing("offs") /\ Me.idx < Len(RingOffsets) /\ abort
  /\ ReturnWith(Aborted)

\* if (ring > 0 && Math.abs(u) < (ring-1)*T) continue
InnerOffset(c, u) == c.ring > 0 /\ (IF u < 0 THEN -u ELSE u) < (c.ring - 1) * c.T
\* if (prefilter && !admissibleAroundSqrt(x, u, S)) continue
Filtered(c, u, aborted) == c.pref /\ ~admissibleAroundSqrt(c.x, u, c.S, aborted)

OffsetSkipped ==
  /\ Executing("offs") /\ Me.idx < Len(RingOffsets) /\ ~abort
  /\ InnerOffset(Me, U) \/ Filtered(Me, U, abort)
  /\ GoOnWith([Me EXCEPT !.idx = @ + 1, !.since = @ + 1])

\* N % d === 0n for d # 0
Divides(d, N) == N % (IF d < 0 THEN -d ELSE d) = 0
\* the tests of a = x + u and b = x - u: the result returned, "throw" for
\* the RangeError of a division by 0n, "none" when the loop goes on
TestOutcome(c, u) ==
  LET a == c.x + u
      b == c.x - u
  IN IF a = 0 THEN [kind |-> "throw"]
     ELSE IF Divides(a, c.N)
     THEN [kind |-> "factor", p |-> a, q |-> c.N \div a, phase |-> "window",
           ring |-> c.ring, u |-> u, checked |-> c.checked + 1]
     ELSE IF u = 0 THEN [kind |-> "none"]
     ELSE IF b = 0 THEN [kind |-> "throw"]
     ELSE IF Divides(b, c.N)
     THEN [kind |-> "factor", p |-> b, q |-> c.N \div b, phase |-> "window",
           ring |-> c.ring, u |-> -u, checked |-> c.checked + 2]
     ELSE [kind |-> "none"]

\* a or b divides N (or the division throws): factorize returns
OffsetHit ==
  /\ Executing("offs") /\ Me.idx < Len(RingOffsets) /\ ~abort
  /\ ~InnerOffset(Me, U) /\ ~Filtered(Me, U, abort)
  /\ TestOutcome(Me, U).kind # "none"
  /\ ReturnWith(TestOutcome(Me, U))

\* if (steps % 5000 === 0) await pause(0), with YieldEvery for 5000
PauseDue(steps) == steps % YieldEvery = 0
\* neither divides: steps++, and a pause every YieldEvery steps
OffsetMiss ==
  /\ Executing("offs") /\ Me.idx < Len(RingOffsets) /\ ~abort
  /\ ~InnerOffset(Me, U) /\ ~Filtered(Me, U, abort)
  /\ TestOutcome(Me, U).kind = "none"
  /\ LET c == [Me EXCEPT !.idx = @ + 1, !.steps = @ + 1,
                         !.checked = @ + (IF U = 0 THEN 1 ELSE 2),
                         !.since = @ + 1]
     IN IF PauseDue(c.steps)
        THEN SuspendWith([c EXCEPT !.pc = "y3", !.since = 0])
        ELSE GoOnWith(c)

XNext ==
  \/ OnRunAlready \/ OnRunRejected \/ OnRunEven \/ OnRunStart
  \/ OnStop \/ OnReset \/ TimerFires
  \/ SweepAborted \/ SweepFound \/ SweepNone
  \/ RingsExhausted \/ RingAborted \/ RingBegin
  \/ OffsetsDone \/ OffsetAborted \/ OffsetSkipped \/ OffsetHit \/ OffsetMiss

SpecX == XInit /\ [][XNext]_vars

\* C24 as stated, with YieldEvery for 5000: in the ring loop of factorize a
\* pause is reached at least once in every YieldEvery consecutive offset
\* iterations, skipped, filtered or tested, and across rings
C24_PauseEveryYieldEveryIterations ==
  \A i \in 1..Len(xCalls) : xCalls[i].since < YieldEvery
\* what holds of the code: a pause follows every YieldEvery-th tested
\* offset of a ring, the offsets left by a continue not being counted
C24_PauseEveryYieldEveryTested ==
  \A i \in 1..Len(xCalls) :
    xCalls[i].pc \in {"offs", "ring", "y3"} =>
      /\ xCalls[i].steps <= xCalls[i].idx
      /\ xCalls[i].pc = "y3" => xCalls[i].steps % YieldEvery = 0 /\ xCalls[i].since = 0
      /\ xCalls[i].since >= xCalls[i].steps % YieldEvery
\* in ring 2 the offsets 0, +1, -1 of the inner rings are passed without
\* a pause
C24_Witness ==
  \E i \in 1..Len(xCalls) :
    /\ xCalls[i].pc = "offs" /\ xCalls[i].ring = 2 /\ xCalls[i].idx = 3
    /\ xCalls[i].steps = 0 /\ xCalls[i].since >= 3

\* N has a prime factor p with |p - isqrt(N)| <= K * T
PrimeFactorInWindow(c) ==
  \E q \in 2..(c.N - 1) :
    IsPrime(q) /\ c.N % q = 0 /\ Abs(q - isqrt(c.N)) <= c.K * c.T
\* a call that ran to its end without Stop or Reset and reported no factor
EndedWithoutFactor(c) ==
  c.pc = "ret" /\ c.res.kind \in {"notfound", "throw"}
\* C25 as stated: with the sweep disabled (B = 0), K >= 1 and an odd N that
\* has a prime factor p with |p - isqrt(N)| <= K * T, the run with the
\* prefilter on returns a factor result
C25_PrefilterHidesNoDivisor ==
  \A i \in 1..Len(xCalls) :
    LET c == xCalls[i]
    IN (c.B = 0 /\ c.K >= 1 /\ c.pref /\ EndedWithoutFactor(c)) =>
         ~PrimeFactorInWindow(c)
\* what holds of the code: the run with the prefilter off returns a factor
\* result for such an N
C25_UnfilteredRunFindsDivisor ==
  \A i \in 1..Len(xCalls) :
    LET c == xCalls[i]
    IN (c.B = 0 /\ c.K >= 1 /\ ~c.pref /\ EndedWithoutFactor(c)) =>
         ~PrimeFactorInWindow(c)
\* 133 = 7 * 19 with isqrt(133) = 11, T = 2, K = 2: the pair (7, 15) is not
\* admissible, the prefiltered run ends without a factor
C25_Witness ==
  \E i \in 1..Len(xCalls) :
    LET c == xCalls[i]
    IN /\ c.N = 133 /\ c.B = 0 /\ c.T = 2 /\ c.K = 2 /\ c.pref
       /\ c.pc = "ret" /\ c.res.kind = "notfound"
\* the same form values with the prefilter off: 7 is reported
C25_UnfilteredWitness ==
  \E i \in 1..Len(xCalls) :
    LET c == xCalls[i]
    IN /\ c.N = 133 /\ c.B = 0 /\ c.T = 2 /\ c.K = 2 /\ ~c.pref
       /\ c.pc = "ret" /\ c.res.kind = "factor" /\ c.res.p = 7 /\ c.res.q = 19

\* C28 as stated, for factorize: a factor result of the phases even, small
\* and window is a nontrivial split of N
C28_FactorizeSplitIsProper ==
  \A i \in 1..Len(xCalls) :
    xCalls[i].res.kind = "factor" =>
      ProperSplit(xCalls[i].res.p, xCalls[i].res.q, xCalls[i].N)
\* quickSmallFactor(3, 3) returns 3: the sweep reports 3 * 1
C28_SweepWitness ==
  \E i \in 1..Len(xCalls) :
    /\ xCalls[i].N = 3 /\ xCalls[i].B = 3
    /\ xCalls[i].res = [kind |-> "factor", p |-> 3, q |-> 1, phase |-> "small"]
\* the window of N = 3 without prefilter: a = isqrt(3) + 0 = 1 divides N
C28_WindowWitness ==
  \E i \in 1..Len(xCalls) :
    /\ xCalls[i].N = 3 /\ xCalls[i].B = 0 /\ ~xCalls[i].pref
    /\ xCalls[i].res.kind = "factor" /\ xCalls[i].res.phase = "window"
    /\ xCalls[i].res.p = 1 /\ xCalls[i].res.q = 3

\* the factorize calls entered and not yet returned
InFlight == {i \in 1..Len(xCalls) : xCalls[i].pc # "ret"}
\* C27 as stated: under every interleaving of the clicks with the pauses of
\* factorize, at most one factorize call is in flight, and state.running is
\* true whenever one is
C27_OneCallInFlightAndRunning ==
  /\ Cardinality(InFlight) <= 1
  /\ InFlight # {} => running
\* what holds of the code: state.running is true only while a call is in
\* flight, and every call in flight is executing or has its timer pending
C27_RunningOnlyWhileInFlight ==
  /\ running => InFlight # {}
  /\ \A i \in InFlight :
       i = xActive \/ \E k \in 1..Len(xTimers) : xTimers[k] = i
\* Run, Reset during a pause, Run: two calls of factorize are in flight
C27_Witness ==
  /\ Cardinality(InFlight) = 2 /\ running /\ xMsg = "run"
\* Reset during a pause: a call is in flight and state.running is false
C27_ResetWitness ==
  /\ Cardinality(InFlight) = 1 /\ ~running /\ xMsg = "reset"

\* C5: a factorize call that was suspended at a pause when state.abort was
\* set (by onStop or onReset) returns the aborted status, never a factor or
\* a not-found result, whatever clicks on Run, Stop and Reset follow
C5_AbortSetWhileSuspendedReturnsAborted ==
  \A i \in 1..Len(xCalls) :
    (xCalls[i].pc = "ret" /\ xCalls[i].abortSet) => xCalls[i].res = Aborted

=============================================================================
